---- MODULE Spec2Model ----
(***************************************************************************)
(* A model of minecrab's voxel core: the chunk block grid, the cull pass   *)
(* and the greedy mesher of world/chunk.rs, chunk persistence (save/load   *)
(* with the procedural fallback), and the highlight / block-edit handlers  *)
(* of state/world_state.rs.                                                *)
(*                                                                         *)
(* Option<T> is modelled as a set: {} is None and {v} is Some(v).  A block *)
(* slot Option<Block> is the string "None" or the block type's name.       *)
(* FaceFlags is modelled as the set of the faces whose bit is set.         *)
(***************************************************************************)
EXTENDS Integers, Sequences, FiniteSets, TLC

\* ------------------------------------------------------------------ bounds

\* Edge length of a chunk. The program uses 32; the model scales it down.
CHUNK_SIZE == 3

\* How many single-block edits one behaviour of the chunk model makes.
MaxEdits == 1

\* How many save and load calls one behaviour of the persistence model makes.
MaxIO == 3

\* ------------------------------------------------------- block / face model

BlockTypes == {"Bedrock", "Stone", "Dirt", "Grass", "Cobblestone", "Water"}

\* Block kinds the edit actions of the chunk model write.
EditTypes == {"Stone", "Dirt", "Water"}

is_transparent(block_type) == block_type = "Water"

FACE_NONE == {}
FACE_LEFT == {"LEFT"}
FACE_RIGHT == {"RIGHT"}
FACE_BOTTOM == {"BOTTOM"}
FACE_TOP == {"TOP"}
FACE_BACK == {"BACK"}
FACE_FRONT == {"FRONT"}
FACE_ALL == {"LEFT", "RIGHT", "BOTTOM", "TOP", "BACK", "FRONT"}

Idx == 0 .. (CHUNK_SIZE - 1)

Grids == [Idx -> [Idx -> [Idx -> BlockTypes \cup {"None"}]]]

\* blocks: [[[None; CHUNK_SIZE]; CHUNK_SIZE]; CHUNK_SIZE]
EmptyBlocks == [y \in Idx |-> [z \in Idx |-> [x \in Idx |-> "None"]]]

DefaultChunk == [blocks |-> EmptyBlocks, buffers |-> {}, full |-> FALSE]

\* Quad::new(position, dx, dz): no faces, no kind, zero highlight normal.
NewQuad(position, dx, dz) ==
    [position |-> position, dx |-> dx, dz |-> dz,
     visible_faces |-> FACE_NONE, block_type |-> "None",
     highlighted_normal |-> <<0, 0, 0>>]

\* ------------------------------------------------------------- coordinates

Add3(a, b) == <<a[1] + b[1], a[2] + b[2], a[3] + b[3]>>
Sub3(a, b) == <<a[1] - b[1], a[2] - b[2], a[3] - b[3]>>
Scale3(a, k) == <<a[1] * k, a[2] * k, a[3] * k>>

\* Some(local) when every component of block - chunk * CHUNK_SIZE is in
\* 0..CHUNK_SIZE, None otherwise.
\* block_coords_to_local with the upper end of the range included.
block_coords_to_local_inclusive(chunk_coords, block_coords) ==
    LET chunk_position == Scale3(chunk_coords, CHUNK_SIZE)
        position == Sub3(block_coords, chunk_position)
    IN  IF /\ position[1] \in 0..CHUNK_SIZE
           /\ position[2] \in 0..CHUNK_SIZE
           /\ position[3] \in 0..CHUNK_SIZE
        THEN {position}
        ELSE {}

block_coords_to_local(chunk_coords, block_coords) ==
    LET chunk_position == Scale3(chunk_coords, CHUNK_SIZE)
        position == Sub3(block_coords, chunk_position)
    IN  IF /\ position[1] \in Idx
           /\ position[2] \in Idx
           /\ position[3] \in Idx
        THEN {position}
        ELSE {}

\* -------------------------------------------------------------- cull pass

\* check_visible_faces comparing the neighbour's kind, not its transparency.
check_visible_faces_by_kind(blocks, x, y, z) ==
    LET kind == blocks[y][z][x]
        left == IF x = 0 \/ blocks[y][z][x - 1] # kind THEN FACE_LEFT ELSE FACE_NONE
        right == IF x = CHUNK_SIZE - 1 \/ blocks[y][z][x + 1] # kind
                 THEN FACE_RIGHT ELSE FACE_NONE
        bottom == IF y = 0 \/ blocks[y - 1][z][x] # kind THEN FACE_BOTTOM ELSE FACE_NONE
        top == IF y = CHUNK_SIZE - 1 \/ blocks[y + 1][z][x] # kind
               THEN FACE_TOP ELSE FACE_NONE
        back == IF z = 0 \/ blocks[y][z - 1][x] # kind THEN FACE_BACK ELSE FACE_NONE
        front == IF z = CHUNK_SIZE - 1 \/ blocks[y][z + 1][x] # kind
                 THEN FACE_FRONT ELSE FACE_NONE
    IN  left \cup right \cup bottom \cup top \cup back \cup front

\* check_visible_faces that asks the grid only: a face on the chunk's boundary
\* is not marked.
check_visible_faces_no_edge(blocks, x, y, z) ==
    LET transparent == is_transparent(blocks[y][z][x])
        open(b) == b = "None" \/ transparent # is_transparent(b)
        left == IF x > 0 /\ open(blocks[y][z][x - 1]) THEN FACE_LEFT ELSE FACE_NONE
        right == IF x < CHUNK_SIZE - 1 /\ open(blocks[y][z][x + 1])
                 THEN FACE_RIGHT ELSE FACE_NONE
        bottom == IF y > 0 /\ open(blocks[y - 1][z][x]) THEN FACE_BOTTOM ELSE FACE_NONE
        top == IF y < CHUNK_SIZE - 1 /\ open(blocks[y + 1][z][x])
               THEN FACE_TOP ELSE FACE_NONE
        back == IF z > 0 /\ open(blocks[y][z - 1][x]) THEN FACE_BACK ELSE FACE_NONE
        front == IF z < CHUNK_SIZE - 1 /\ open(blocks[y][z + 1][x])
                 THEN FACE_FRONT ELSE FACE_NONE
    IN  left \cup right \cup bottom \cup top \cup back \cup front

\* check_visible_faces that leaves the face on the chunk's +x boundary to the
\* neighbouring chunk: it is not marked.
check_visible_faces_right_closed(blocks, x, y, z) ==
    check_visible_faces_no_edge(blocks, x, y, z)
        \cup (IF x = 0 THEN FACE_LEFT ELSE FACE_NONE)
        \cup (IF y = 0 THEN FACE_BOTTOM ELSE FACE_NONE)
        \cup (IF y = CHUNK_SIZE - 1 THEN FACE_TOP ELSE FACE_NONE)
        \cup (IF z = 0 THEN FACE_BACK ELSE FACE_NONE)
        \cup (IF z = CHUNK_SIZE - 1 THEN FACE_FRONT ELSE FACE_NONE)

check_visible_faces(blocks, x, y, z) ==
    LET transparent == is_transparent(blocks[y][z][x])
        left == IF \/ x = 0
                   \/ blocks[y][z][x - 1] = "None"
                   \/ transparent # is_transparent(blocks[y][z][x - 1])
                THEN FACE_LEFT ELSE FACE_NONE
        right == IF \/ x = CHUNK_SIZE - 1
                    \/ blocks[y][z][x + 1] = "None"
                    \/ transparent # is_transparent(blocks[y][z][x + 1])
                 THEN FACE_RIGHT ELSE FACE_NONE
        bottom == IF \/ y = 0
                     \/ blocks[y - 1][z][x] = "None"
                     \/ transparent # is_transparent(blocks[y - 1][z][x])
                  THEN FACE_BOTTOM ELSE FACE_NONE
        top == IF \/ y = CHUNK_SIZE - 1
                  \/ blocks[y + 1][z][x] = "None"
                  \/ transparent # is_transparent(blocks[y + 1][z][x])
               THEN FACE_TOP ELSE FACE_NONE
        back == IF \/ z = 0
                   \/ blocks[y][z - 1][x] = "None"
                   \/ transparent # is_transparent(blocks[y][z - 1][x])
                THEN FACE_BACK ELSE FACE_NONE
        front == IF \/ z = CHUNK_SIZE - 1
                    \/ blocks[y][z + 1][x] = "None"
                    \/ transparent # is_transparent(blocks[y][z + 1][x])
                 THEN FACE_FRONT ELSE FACE_NONE
    IN  left \cup right \cup bottom \cup top \cup back \cup front

\* The (x, z) cells of a layer in the order the double loop visits them:
\* z outer, x inner.
RowMajor == [i \in 1 .. (CHUNK_SIZE * CHUNK_SIZE) |->
                <<(i - 1) % CHUNK_SIZE, (i - 1) \div CHUNK_SIZE>>]

\* cull_layer that keeps every occupied cell, also with an empty mask.
cull_layer_keep_all(blocks, y) ==
    LET kept(c) == blocks[y][c[2]][c[1]] # "None"
        cells == {c \in Idx \X Idx : kept(c)}
    IN  [culled |-> [c \in cells |->
                        [block_type |-> blocks[y][c[2]][c[1]],
                         visible_faces |-> check_visible_faces(blocks, c[1], y, c[2])]],
         queue |-> SelectSeq(RowMajor, kept)]

\* culled: (x, z) -> (block_type, visible_faces) for the occupied cells with a
\* non-empty mask; queue: the same cells in visiting order.
cull_layer(blocks, y) ==
    LET kept(c) == /\ blocks[y][c[2]][c[1]] # "None"
                   /\ check_visible_faces(blocks, c[1], y, c[2]) # FACE_NONE
        cells == {c \in Idx \X Idx : kept(c)}
    IN  [culled |-> [c \in cells |->
                        [block_type |-> blocks[y][c[2]][c[1]],
                         visible_faces |-> check_visible_faces(blocks, c[1], y, c[2])]],
         queue |-> SelectSeq(RowMajor, kept)]

\* ------------------------------------------------------------ greedy merge

\* No kind is emitted cell by cell: water merges like any other block.
is_unmerged_kind_none(block_type) == FALSE

\* The kind that is emitted cell by cell (chunk.rs line 324).
is_unmerged_kind(block_type) == block_type = "Water"

\* ExtendX that keeps the anchor's mask: the masks of the cells merged along
\* X are not OR-ed in.
RECURSIVE ExtendX_KeepFaces(_, _, _, _, _, _, _, _, _)
ExtendX_KeepFaces(x_, xmax, quad_faces, visited, y, z, block_type, culled, hl) ==
    IF x_ >= CHUNK_SIZE
    THEN [xmax |-> xmax, quad_faces |-> quad_faces, visited |-> visited]
    ELSE LET xm == x_ + 1 IN
         IF <<xm, z>> \in visited \/ hl = {<<xm, y, z>>}
         THEN [xmax |-> xm, quad_faces |-> quad_faces, visited |-> visited]
         ELSE IF <<xm, z>> \in DOMAIN culled
         THEN IF block_type # culled[<<xm, z>>].block_type
              THEN [xmax |-> xm, quad_faces |-> quad_faces, visited |-> visited]
              ELSE ExtendX_KeepFaces(x_ + 1, xm, quad_faces, visited \cup {<<xm, z>>},
                                     y, z, block_type, culled, hl)
         ELSE [xmax |-> xm, quad_faces |-> quad_faces, visited |-> visited]

\* ExtendX that does not stop at the highlighted cell.
RECURSIVE ExtendX_NoHighlight(_, _, _, _, _, _, _, _, _)
ExtendX_NoHighlight(x_, xmax, quad_faces, visited, y, z, block_type, culled, hl) ==
    IF x_ >= CHUNK_SIZE
    THEN [xmax |-> xmax, quad_faces |-> quad_faces, visited |-> visited]
    ELSE LET xm == x_ + 1 IN
         IF <<xm, z>> \in visited
         THEN [xmax |-> xm, quad_faces |-> quad_faces, visited |-> visited]
         ELSE IF <<xm, z>> \in DOMAIN culled
         THEN LET faces == quad_faces \cup culled[<<xm, z>>].visible_faces IN
              IF block_type # culled[<<xm, z>>].block_type
              THEN [xmax |-> xm, quad_faces |-> faces, visited |-> visited]
              ELSE ExtendX_NoHighlight(x_ + 1, xm, faces, visited \cup {<<xm, z>>},
                                       y, z, block_type, culled, hl)
         ELSE [xmax |-> xm, quad_faces |-> quad_faces, visited |-> visited]

\* The loop "for x_ in x..CHUNK_SIZE" from iteration x_ on. The mask of the
\* cell at xmax is OR-ed in before its kind is compared.
RECURSIVE ExtendX(_, _, _, _, _, _, _, _, _)
ExtendX(x_, xmax, quad_faces, visited, y, z, block_type, culled, hl) ==
    IF x_ >= CHUNK_SIZE
    THEN [xmax |-> xmax, quad_faces |-> quad_faces, visited |-> visited]
    ELSE LET xm == x_ + 1 IN
         IF <<xm, z>> \in visited \/ hl = {<<xm, y, z>>}
         THEN [xmax |-> xm, quad_faces |-> quad_faces, visited |-> visited]
         ELSE IF <<xm, z>> \in DOMAIN culled
         THEN LET faces == quad_faces \cup culled[<<xm, z>>].visible_faces IN
              IF block_type # culled[<<xm, z>>].block_type
              THEN [xmax |-> xm, quad_faces |-> faces, visited |-> visited]
              ELSE ExtendX(x_ + 1, xm, faces, visited \cup {<<xm, z>>},
                           y, z, block_type, culled, hl)
         ELSE [xmax |-> xm, quad_faces |-> quad_faces, visited |-> visited]

\* ScanRow that does not compare the kinds of the candidate row's cells with
\* the quad's.
RECURSIVE ScanRow_AnyKind(_, _, _, _, _, _, _, _, _)
ScanRow_AnyKind(x_, xmax, zmax, quad_faces, visited, y, block_type, culled, hl) ==
    IF x_ >= xmax
    THEN [ok |-> TRUE, quad_faces |-> quad_faces]
    ELSE IF <<x_, zmax>> \in visited \/ hl = {<<x_, y, zmax>>}
    THEN [ok |-> FALSE, quad_faces |-> quad_faces]
    ELSE IF <<x_, zmax>> \in DOMAIN culled
    THEN ScanRow_AnyKind(x_ + 1, xmax, zmax,
                         quad_faces \cup culled[<<x_, zmax>>].visible_faces,
                         visited, y, block_type, culled, hl)
    ELSE [ok |-> FALSE, quad_faces |-> quad_faces]

\* The inner loop "for x_ in x..xmax" over the candidate row zmax, from x_ on:
\* ok is FALSE when the loop leaves by "break 'z".
RECURSIVE ScanRow(_, _, _, _, _, _, _, _, _)
ScanRow(x_, xmax, zmax, quad_faces, visited, y, block_type, culled, hl) ==
    IF x_ >= xmax
    THEN [ok |-> TRUE, quad_faces |-> quad_faces]
    ELSE IF <<x_, zmax>> \in visited \/ hl = {<<x_, y, zmax>>}
    THEN [ok |-> FALSE, quad_faces |-> quad_faces]
    ELSE IF <<x_, zmax>> \in DOMAIN culled
    THEN LET faces == quad_faces \cup culled[<<x_, zmax>>].visible_faces IN
         IF block_type # culled[<<x_, zmax>>].block_type
         THEN [ok |-> FALSE, quad_faces |-> faces]
         ELSE ScanRow(x_ + 1, xmax, zmax, faces, visited, y, block_type, culled, hl)
    ELSE [ok |-> FALSE, quad_faces |-> quad_faces]

\* ExtendZ that marks the cells of the candidate row visited also when the
\* row is rejected.
RECURSIVE ExtendZ_MarkFailedRow(_, _, _, _, _, _, _, _, _, _)
ExtendZ_MarkFailedRow(z_, zmax, quad_faces, visited, x, xmax, y, block_type, culled, hl) ==
    IF z_ >= CHUNK_SIZE
    THEN [zmax |-> zmax, quad_faces |-> quad_faces, visited |-> visited]
    ELSE LET zm == z_ + 1
             row == ScanRow(x, xmax, zm, quad_faces, visited, y, block_type, culled, hl)
             marked == visited \cup {<<x_, zm>> : x_ \in x .. (xmax - 1)}
         IN  IF ~row.ok
             THEN [zmax |-> zm, quad_faces |-> row.quad_faces, visited |-> marked]
             ELSE ExtendZ_MarkFailedRow(z_ + 1, zm, row.quad_faces, marked,
                                        x, xmax, y, block_type, culled, hl)

\* ExtendZ that does not mark the rows it merges as visited.
RECURSIVE ExtendZ_NoVisit(_, _, _, _, _, _, _, _, _, _)
ExtendZ_NoVisit(z_, zmax, quad_faces, visited, x, xmax, y, block_type, culled, hl) ==
    IF z_ >= CHUNK_SIZE
    THEN [zmax |-> zmax, quad_faces |-> quad_faces, visited |-> visited]
    ELSE LET zm == z_ + 1
             row == ScanRow(x, xmax, zm, quad_faces, visited, y, block_type, culled, hl)
         IN  IF ~row.ok
             THEN [zmax |-> zm, quad_faces |-> row.quad_faces, visited |-> visited]
             ELSE ExtendZ_NoVisit(z_ + 1, zm, row.quad_faces, visited,
                                  x, xmax, y, block_type, culled, hl)

\* The loop "'z: for z_ in z..CHUNK_SIZE" from iteration z_ on.
RECURSIVE ExtendZ(_, _, _, _, _, _, _, _, _, _)
ExtendZ(z_, zmax, quad_faces, visited, x, xmax, y, block_type, culled, hl) ==
    IF z_ >= CHUNK_SIZE
    THEN [zmax |-> zmax, quad_faces |-> quad_faces, visited |-> visited]
    ELSE LET zm == z_ + 1
             row == ScanRow(x, xmax, zm, quad_faces, visited, y, block_type, culled, hl)
         IN  IF ~row.ok
             THEN [zmax |-> zm, quad_faces |-> row.quad_faces, visited |-> visited]
             ELSE ExtendZ(z_ + 1, zm, row.quad_faces,
                          visited \cup {<<x_, zm>> : x_ \in x .. (xmax - 1)},
                          x, xmax, y, block_type, culled, hl)

\* The "while let Some((x, z)) = queue.pop_front()" loop; highlighted is the
\* chunk-local Option<(Vector3<usize>, Vector3<i32>)>.
RECURSIVE MergeLoop(_, _, _, _, _, _, _)
MergeLoop(queue, visited, quads, y, offset, culled, highlighted) ==
    IF queue = <<>>
    THEN quads
    ELSE
    LET x == Head(queue)[1]
        z == Head(queue)[2]
        position == Add3(offset, <<x, y, z>>)
        hl == {h[1] : h \in highlighted}
    IN  IF <<x, z>> \in visited
        THEN MergeLoop(Tail(queue), visited, quads, y, offset, culled, highlighted)
        ELSE
        LET visited1 == visited \cup {<<x, z>>} IN
        IF <<x, z>> \notin DOMAIN culled
        THEN MergeLoop(Tail(queue), visited1, quads, y, offset, culled, highlighted)
        ELSE
        LET block_type == culled[<<x, z>>].block_type
            visible_faces == culled[<<x, z>>].visible_faces
        IN  IF hl = {<<x, y, z>>}
            THEN MergeLoop(Tail(queue), visited1,
                     Append(quads,
                         [NewQuad(position, 1, 1) EXCEPT
                             !.highlighted_normal = (CHOOSE h \in highlighted : TRUE)[2],
                             !.visible_faces = visible_faces,
                             !.block_type = block_type]),
                     y, offset, culled, highlighted)
            ELSE IF is_unmerged_kind(block_type)
            THEN MergeLoop(Tail(queue), visited1,
                     Append(quads,
                         [NewQuad(position, 1, 1) EXCEPT
                             !.visible_faces = visible_faces,
                             !.block_type = block_type]),
                     y, offset, culled, highlighted)
            ELSE
            LET ex == ExtendX(x, x + 1, visible_faces, visited1, y, z,
                              block_type, culled, hl)
                ez == ExtendZ(z, z + 1, ex.quad_faces, ex.visited, x, ex.xmax, y,
                              block_type, culled, hl)
            IN  MergeLoop(Tail(queue), ez.visited,
                     Append(quads,
                         [NewQuad(position, ex.xmax - x, ez.zmax - z) EXCEPT
                             !.visible_faces = ez.quad_faces,
                             !.block_type = block_type]),
                     y, offset, culled, highlighted)

layer_to_quads(y, offset, culled, queue, highlighted) ==
    MergeLoop(queue, {}, <<>>, y, offset, culled, highlighted)

\* The quads of layer y of a chunk: one iteration of update_geometry's flat_map.
LayerQuads(blocks, y, chunk_coords, highlighted) ==
    LET local == UNION {{<<l, h[2]>> : l \in block_coords_to_local(chunk_coords, h[1])} :
                           h \in highlighted}
        offset == Scale3(chunk_coords, CHUNK_SIZE)
        c == cull_layer(blocks, y)
    IN  layer_to_quads(y, offset, c.culled, c.queue, local)

\* Concatenation of the layers' quads in layer order (an indexed parallel
\* iterator collects in index order).
RECURSIVE FlatMapLayers(_, _, _, _)
FlatMapLayers(blocks, y, chunk_coords, highlighted) ==
    IF y >= CHUNK_SIZE
    THEN <<>>
    ELSE LayerQuads(blocks, y, chunk_coords, highlighted)
             \o FlatMapLayers(blocks, y + 1, chunk_coords, highlighted)

\* The scan of update_fullness from the i-th cell on, y outermost and x
\* innermost: FALSE at the first empty cell, TRUE when the loops run out.
RECURSIVE ScanFullness(_, _)
ScanFullness(blocks, i) ==
    IF i >= CHUNK_SIZE * CHUNK_SIZE * CHUNK_SIZE
    THEN TRUE
    ELSE IF blocks[i \div (CHUNK_SIZE * CHUNK_SIZE)]
                  [(i \div CHUNK_SIZE) % CHUNK_SIZE][i % CHUNK_SIZE] = "None"
    THEN FALSE
    ELSE ScanFullness(blocks, i + 1)

\* update_fullness that only ever raises the flag.
update_fullness_sticky(chunk) ==
    [chunk EXCEPT !.full = chunk.full \/ ScanFullness(chunk.blocks, 0)]

update_fullness(chunk) ==
    [chunk EXCEPT !.full = ScanFullness(chunk.blocks, 0)]

\* buffers := Some(geometry of the quads), then update_fullness. The geometry
\* is represented by the quads it is tessellated from.
update_geometry(chunk, chunk_coords, highlighted) ==
    update_fullness(
        [chunk EXCEPT !.buffers = {FlatMapLayers(chunk.blocks, 0, chunk_coords, highlighted)}])

\* -------------------------------------------------- procedural generation

\* The two noise maps of generate, sampled on the chunk's columns and scaled
\* as the code scales them: terrain_value is round(get_value * 20 + 128) and
\* stone_value is round(get_value * 20 + 4.5) before the clamp. A plane map
\* samples a fixed function of the global column (chunk * CHUNK_SIZE + local);
\* noise names that function by a few parameters.
terrain_value(noise, gx, gz) ==
    noise.tbase + ((noise.ta * gx + noise.tb * gz) % noise.tm)

stone_value(noise, gx, gz) ==
    noise.sbase + ((gx + 2 * gz) % noise.sm)

Min(a, b) == IF a < b THEN a ELSE b
Max(a, b) == IF a > b THEN a ELSE b

\* A noise whose terrain heights lie around the sea level.
DefaultNoise == [tbase |-> 128 - CHUNK_SIZE - 2, ta |-> 1, tb |-> 2, tm |-> 7,
                 sbase |-> 1, sm |-> 4]

\* generate_cell whose water fill also runs in the chunks at the sea level.
generate_cell_sea_inclusive(old, noise, chunk_x, chunk_y, chunk_z, x, y, z) ==
    LET v == terrain_value(noise, chunk_x * CHUNK_SIZE + x, chunk_z * CHUNK_SIZE + z)
        s == Max(Min(stone_value(noise, chunk_x * CHUNK_SIZE + x,
                                 chunk_z * CHUNK_SIZE + z), 10), 3)
        stone_max == Min(v - s - chunk_y * CHUNK_SIZE, CHUNK_SIZE)
        dirt_max == Min(v - chunk_y * CHUNK_SIZE, CHUNK_SIZE)
        c1 == IF 0 <= y /\ y < stone_max THEN "Stone" ELSE old
        c2 == IF Max(stone_max, 0) <= y /\ y < dirt_max THEN "Dirt" ELSE c1
        c3 == IF dirt_max \in Idx /\ y = dirt_max THEN "Grass" ELSE c2
        c4 == IF chunk_y = 0 /\ y = 0 THEN "Bedrock" ELSE c3
    IN  IF chunk_y <= 128 \div CHUNK_SIZE /\ c4 = "None" THEN "Water" ELSE c4

\* generate_cell that writes the bedrock floor first, so that the stone, dirt
\* and grass of the column are written over it.
generate_cell_bedrock_first(old, noise, chunk_x, chunk_y, chunk_z, x, y, z) ==
    LET v == terrain_value(noise, chunk_x * CHUNK_SIZE + x, chunk_z * CHUNK_SIZE + z)
        s == Max(Min(stone_value(noise, chunk_x * CHUNK_SIZE + x,
                                 chunk_z * CHUNK_SIZE + z), 10), 3)
        stone_max == Min(v - s - chunk_y * CHUNK_SIZE, CHUNK_SIZE)
        dirt_max == Min(v - chunk_y * CHUNK_SIZE, CHUNK_SIZE)
        c0 == IF chunk_y = 0 /\ y = 0 THEN "Bedrock" ELSE old
        c1 == IF 0 <= y /\ y < stone_max THEN "Stone" ELSE c0
        c2 == IF Max(stone_max, 0) <= y /\ y < dirt_max THEN "Dirt" ELSE c1
        c3 == IF dirt_max \in Idx /\ y = dirt_max THEN "Grass" ELSE c2
    IN  IF chunk_y < 128 \div CHUNK_SIZE /\ c3 = "None" THEN "Water" ELSE c3

\* generate_cell that puts the grass cap only on an empty cell and dirt on a
\* cell that already holds a block.
generate_cell_bury(old, noise, chunk_x, chunk_y, chunk_z, x, y, z) ==
    LET v == terrain_value(noise, chunk_x * CHUNK_SIZE + x, chunk_z * CHUNK_SIZE + z)
        s == Max(Min(stone_value(noise, chunk_x * CHUNK_SIZE + x,
                                 chunk_z * CHUNK_SIZE + z), 10), 3)
        stone_max == Min(v - s - chunk_y * CHUNK_SIZE, CHUNK_SIZE)
        dirt_max == Min(v - chunk_y * CHUNK_SIZE, CHUNK_SIZE)
        c1 == IF 0 <= y /\ y < stone_max THEN "Stone" ELSE old
        c2 == IF Max(stone_max, 0) <= y /\ y < dirt_max THEN "Dirt" ELSE c1
        c3 == IF dirt_max \in Idx /\ y = dirt_max
              THEN (IF old = "None" THEN "Grass" ELSE "Dirt")
              ELSE c2
        c4 == IF chunk_y = 0 /\ y = 0 THEN "Bedrock" ELSE c3
    IN  IF chunk_y < 128 \div CHUNK_SIZE /\ c4 = "None" THEN "Water" ELSE c4

\* The value generate leaves in cell (x, y, z) of a column that held old:
\* stone, dirt, grass, bedrock and water are written in this order.
generate_cell(old, noise, chunk_x, chunk_y, chunk_z, x, y, z) ==
    LET v == terrain_value(noise, chunk_x * CHUNK_SIZE + x, chunk_z * CHUNK_SIZE + z)
        s == Max(Min(stone_value(noise, chunk_x * CHUNK_SIZE + x,
                                 chunk_z * CHUNK_SIZE + z), 10), 3)
        stone_max == Min(v - s - chunk_y * CHUNK_SIZE, CHUNK_SIZE)
        dirt_max == Min(v - chunk_y * CHUNK_SIZE, CHUNK_SIZE)
        c1 == IF 0 <= y /\ y < stone_max THEN "Stone" ELSE old
        c2 == IF Max(stone_max, 0) <= y /\ y < dirt_max THEN "Dirt" ELSE c1
        c3 == IF dirt_max \in Idx /\ y = dirt_max THEN "Grass" ELSE c2
        c4 == IF chunk_y = 0 /\ y = 0 THEN "Bedrock" ELSE c3
    IN  IF chunk_y < 128 \div CHUNK_SIZE /\ c4 = "None" THEN "Water" ELSE c4

generate(chunk, noise, chunk_x, chunk_y, chunk_z) ==
    [chunk EXCEPT !.blocks =
        [y \in Idx |-> [z \in Idx |-> [x \in Idx |->
            generate_cell(chunk.blocks[y][z][x], noise,
                          chunk_x, chunk_y, chunk_z, x, y, z)]]]]

\* ------------------------------------------------------------- persistence

DigitChars == <<"0", "1", "2", "3", "4", "5", "6", "7", "8", "9">>

RECURSIVE FmtNat(_)
FmtNat(n) ==
    IF n < 10 THEN <<DigitChars[n + 1]>>
    ELSE FmtNat(n \div 10) \o <<DigitChars[(n % 10) + 1]>>

\* "{}" of an isize: decimal digits, a leading "-" when negative.
FmtInt(n) == IF n < 0 THEN <<"-">> \o FmtNat(-n) ELSE FmtNat(n)

\* A key that leaves out the y coordinate.
ChunkKey_NoY(position) ==
    FmtInt(position[1]) \o <<"_">> \o FmtInt(position[3])

\* format!("{}_{}_{}", position.x, position.y, position.z)
ChunkKey(position) ==
    FmtInt(position[1]) \o <<"_">> \o FmtInt(position[2]) \o <<"_">> \o FmtInt(position[3])

\* CHUNK_SIZE.pow(3)
Volume == CHUNK_SIZE * CHUNK_SIZE * CHUNK_SIZE

\* One serialized Option<Block>: nil, or the block's map with its named field.
EncodeBlock(b) == IF b = "None" THEN {} ELSE {[block_type |-> b]}

ValidElem(e) == e = {} \/ \E t \in BlockTypes : e = {[block_type |-> t]}

DecodeBlock(e) == IF e = {} THEN "None" ELSE (CHOOSE r \in e : TRUE).block_type

\* serialize that walks each layer column by column: x outer, z inner.
serialize_xz(chunk) ==
    [len |-> Volume,
     elems |-> [i \in 1 .. Volume |->
        EncodeBlock(chunk.blocks[(i - 1) \div (CHUNK_SIZE * CHUNK_SIZE)]
                                [(i - 1) % CHUNK_SIZE]
                                [((i - 1) \div CHUNK_SIZE) % CHUNK_SIZE])]]

\* The record of a chunk: an array header of CHUNK_SIZE^3 and the elements in
\* the order of the loops: layer (y), row (z), block (x).
serialize(chunk) ==
    [len |-> Volume,
     elems |-> [i \in 1 .. Volume |->
        EncodeBlock(chunk.blocks[(i - 1) \div (CHUNK_SIZE * CHUNK_SIZE)]
                                [((i - 1) \div CHUNK_SIZE) % CHUNK_SIZE]
                                [(i - 1) % CHUNK_SIZE])]]

\* ChunkVisitor::visit_seq from slot i on, filling chunk. next_element gives
\* Ok(None) past the array's declared length, which unwrap turns into a panic,
\* and Err when the bytes end or do not hold an Option<Block>.
RECURSIVE visit_seq(_, _, _)
visit_seq(data, i, chunk) ==
    IF i > Volume
    THEN [status |-> "Ok", chunk |-> chunk]
    ELSE IF i > data.len
    THEN [status |-> "panic", chunk |-> chunk]
    ELSE IF i > Len(data.elems) \/ ~ValidElem(data.elems[i])
    THEN [status |-> "Err", chunk |-> chunk]
    ELSE visit_seq(data, i + 1,
            [chunk EXCEPT !.blocks[(i - 1) \div (CHUNK_SIZE * CHUNK_SIZE)]
                                  [((i - 1) \div CHUNK_SIZE) % CHUNK_SIZE]
                                  [(i - 1) % CHUNK_SIZE] = DecodeBlock(data.elems[i])])

\* rmp_serde::decode::from_slice::<Chunk>: a fresh default chunk is filled.
from_slice(data) == visit_seq(data, 1, DefaultChunk)

\* store.insert(key, data)
save(chunk, position, store) ==
    [k \in DOMAIN store \cup {ChunkKey(position)} |->
        IF k = ChunkKey(position) THEN serialize(chunk) ELSE store[k]]

\* load that decodes into the chunk itself and keeps what was decoded when
\* the decoding fails.
load_in_place(chunk, position, store, noise) ==
    IF ChunkKey(position) \in DOMAIN store
    THEN LET r == visit_seq(store[ChunkKey(position)], 1, chunk)
         IN  [chunk |-> r.chunk,
              result |-> IF r.status = "Ok" THEN "Ok(false)" ELSE r.status]
    ELSE [chunk |-> generate(chunk, noise, position[1], position[2], position[3]),
          result |-> "Ok(true)"]

\* Chunk::load: the new chunk value and what the call returns: "Ok(false)"
\* (decoded), "Ok(true)" (generated), "Err" or "panic".
load(chunk, position, store, noise) ==
    IF ChunkKey(position) \in DOMAIN store
    THEN LET r == from_slice(store[ChunkKey(position)])
         IN  IF r.status = "Ok"
             THEN [chunk |-> r.chunk, result |-> "Ok(false)"]
             ELSE [chunk |-> chunk, result |-> r.status]
    ELSE [chunk |-> generate(chunk, noise, position[1], position[2], position[3]),
          result |-> "Ok(true)"]

\* ------------------------------------------------------------------- world

\* The chunk position of a block position: h.0 / CHUNK_SIZE, per component.
ChunkOf(pos) ==
    <<pos[1] \div CHUNK_SIZE, pos[2] \div CHUNK_SIZE, pos[3] \div CHUNK_SIZE>>

LocalOf(pos) ==
    <<pos[1] % CHUNK_SIZE, pos[2] % CHUNK_SIZE, pos[3] % CHUNK_SIZE>>

\* World::get_block: None when the chunk does not exist or the cell is empty.
get_block(w, pos) ==
    IF ChunkOf(pos) \in DOMAIN w
    THEN w[ChunkOf(pos)][LocalOf(pos)[2]][LocalOf(pos)[3]][LocalOf(pos)[1]]
    ELSE "None"

\* set_block that makes the chunk of pos when the world has none there.
set_block_creating(w, pos, block) ==
    [cp \in DOMAIN w \cup {ChunkOf(pos)} |->
        IF cp = ChunkOf(pos)
        THEN [(IF cp \in DOMAIN w THEN w[cp] ELSE EmptyBlocks)
                 EXCEPT ![LocalOf(pos)[2]][LocalOf(pos)[3]][LocalOf(pos)[1]] = block]
        ELSE w[cp]]

\* World::set_block: writes the cell of the one chunk that holds it; nothing
\* when no chunk does.
set_block(w, pos, block) ==
    IF ChunkOf(pos) \in DOMAIN w
    THEN [w EXCEPT ![ChunkOf(pos)][LocalOf(pos)[2]][LocalOf(pos)[3]][LocalOf(pos)[1]] = block]
    ELSE w

\* The hard maximum of cells a ray visits.
MaxRaySteps == 5

Neg3(a) == <<-a[1], -a[2], -a[3]>>

Abs(n) == IF n < 0 THEN -n ELSE n

Sign(n) == IF n < 0 THEN -1 ELSE IF n > 0 THEN 1 ELSE 0

\* The unit vector of axis a (1 = x, 2 = y, 3 = z) times s.
AxisVec(a, s) ==
    <<IF a = 1 THEN s ELSE 0, IF a = 2 THEN s ELSE 0, IF a = 3 THEN s ELSE 0>>

\* The axis whose next cell boundary the ray reaches first. The ray starts at
\* the centre of its cell, so it crosses the k[a]-th boundary along axis a at
\* time (2 * k[a] - 1) / (2 * |dir[a]|); times are compared by cross
\* multiplication, ties go to the lower axis.
NextAxis(dir, k) ==
    CHOOSE a \in {i \in 1..3 : dir[i] # 0} :
        \A b \in {i \in 1..3 : dir[i] # 0} \ {a} :
            \/ (2 * k[a] - 1) * Abs(dir[b]) < (2 * k[b] - 1) * Abs(dir[a])
            \/ /\ (2 * k[a] - 1) * Abs(dir[b]) = (2 * k[b] - 1) * Abs(dir[a])
               /\ a < b

\* The traversal that gives up one step late.
RECURSIVE RayMarch_OneMore(_, _, _, _, _)
RayMarch_OneMore(w, cell, dir, k, steps) ==
    IF steps > MaxRaySteps
    THEN [hit |-> {}, steps |-> steps]
    ELSE LET a == NextAxis(dir, k)
             next == Add3(cell, AxisVec(a, Sign(dir[a])))
         IN  IF get_block(w, next) # "None"
             THEN [hit |-> {<<next, AxisVec(a, -Sign(dir[a]))>>}, steps |-> steps + 1]
             ELSE RayMarch_OneMore(w, next, dir, [k EXCEPT ![a] = @ + 1], steps + 1)

\* The traversal that reports the direction of travel as the normal.
RECURSIVE RayMarch_Inward(_, _, _, _, _)
RayMarch_Inward(w, cell, dir, k, steps) ==
    IF steps >= MaxRaySteps
    THEN [hit |-> {}, steps |-> steps]
    ELSE LET a == NextAxis(dir, k)
             next == Add3(cell, AxisVec(a, Sign(dir[a])))
         IN  IF get_block(w, next) # "None"
             THEN [hit |-> {<<next, AxisVec(a, Sign(dir[a]))>>}, steps |-> steps + 1]
             ELSE RayMarch_Inward(w, next, dir, [k EXCEPT ![a] = @ + 1], steps + 1)

\* World::raycast's traversal, cell by cell from the cell after the origin's:
\* the first occupied cell within reach, with the outward normal of the face
\* the ray entered through; steps counts the cells visited so far.
RECURSIVE RayMarch(_, _, _, _, _)
RayMarch(w, cell, dir, k, steps) ==
    IF steps >= MaxRaySteps
    THEN [hit |-> {}, steps |-> steps]
    ELSE LET a == NextAxis(dir, k)
             next == Add3(cell, AxisVec(a, Sign(dir[a])))
         IN  IF get_block(w, next) # "None"
             THEN [hit |-> {<<next, AxisVec(a, -Sign(dir[a]))>>}, steps |-> steps + 1]
             ELSE RayMarch(w, next, dir, [k EXCEPT ![a] = @ + 1], steps + 1)

raycast(w, origin, direction) == RayMarch(w, origin, direction, <<1, 1, 1>>, 0).hit

\* ------------------------------------------------------------------ camera

\* Angles are whole numbers of 1/10000 rad; directions are vectors of whole
\* thousandths, each component rounded to the nearest.
AnglePi == 31416

\* sin of an angle x in 0 .. AnglePi / 2, in 1/10000: the series
\* x - x^3/3! + x^5/5! - x^7/7! + x^9/9!.
SinQuarter(x) ==
    LET x2 == (x * x) \div 10000
        t3 == ((x * x2) \div 10000) \div 6
        t5 == ((t3 * x2) \div 10000) \div 20
        t7 == ((t5 * x2) \div 10000) \div 42
        t9 == ((t7 * x2) \div 10000) \div 72
    IN  x - t3 + t5 - t7 + t9

Sin(x) ==
    LET r == x % (2 * AnglePi) IN
        IF 2 * r <= AnglePi THEN SinQuarter(r)
        ELSE IF r <= AnglePi THEN SinQuarter(AnglePi - r)
        ELSE IF 2 * r <= 3 * AnglePi THEN -SinQuarter(r - AnglePi)
        ELSE -SinQuarter(2 * AnglePi - r)

Cos(x) == Sin(x + AnglePi \div 2)

\* v / unit rounded to the nearest whole number, halves away from zero.
RoundDiv(v, unit) ==
    IF v >= 0 THEN (2 * v + unit) \div (2 * unit)
    ELSE -((2 * (-v) + unit) \div (2 * unit))

\* Camera::direction: (cos yaw cos pitch, sin pitch, sin yaw cos pitch).
direction(cam) ==
    <<RoundDiv(Cos(cam.yaw) * Cos(cam.pitch), 100000),
      RoundDiv(Sin(cam.pitch), 10),
      RoundDiv(Sin(cam.yaw) * Cos(cam.pitch), 100000)>>

\* Deg(-80.0) and Deg(89.9) as Rad.
PitchMin == -13963
PitchMax == 15691

\* WorldState::update_camera: yaw += dx * 0.003 rad, pitch -= dy * 0.003 rad,
\* then the pitch is clamped. dx and dy are given in thirtieths of a unit of
\* the mouse, so that each adds a whole number of 1/10000 rad.
update_camera(cam, dx, dy) ==
    LET pitch == cam.pitch - dy IN
        [cam EXCEPT !.yaw = cam.yaw + dx,
                    !.pitch = IF pitch < PitchMin THEN PitchMin
                              ELSE IF pitch > PitchMax THEN PitchMax
                              ELSE pitch]

\* The camera WorldState::create_camera makes: yaw 45 degrees, pitch -20
\* degrees, in the cell above the first chunk ((10, 140, 10) in a world of
\* chunks of 32).
InitCamera == [position |-> <<1, CHUNK_SIZE, 1>>, yaw |-> 7854, pitch |-> -3491]

\* The views the camera is turned between: the initial one and the steepest
\* looks down and up the clamp allows, along +x.
Views == {[yaw |-> 7854, pitch |-> -3491],
          [yaw |-> 0, pitch |-> PitchMin],
          [yaw |-> 0, pitch |-> PitchMax]}

\* Moves of the mouse that turn the camera between these views; the first
\* four run the pitch into the clamp.
MouseMoves == {<<-7854, 1000000>>, <<-7854, -1000000>>,
               <<0, 1000000>>, <<0, -1000000>>,
               <<7854, -10472>>, <<7854, 19182>>}

\* WorldState::update_chunk_geometry on ws = [world, highlighted,
\* chunk_buffers, remeshed]: the chunk's mesh under the stored highlight is
\* put into chunk_buffers; remeshed logs the call.
update_chunk_geometry(ws, chunk_position) ==
    [ws EXCEPT
        !.chunk_buffers =
            [cp \in DOMAIN ws.chunk_buffers \cup {chunk_position} |->
                IF cp = chunk_position
                THEN FlatMapLayers(ws.world[chunk_position], 0, chunk_position,
                                   ws.highlighted)
                ELSE ws.chunk_buffers[cp]],
        !.remeshed = Append(ws.remeshed, chunk_position)]

\* WorldState::update_world_geometry: chunk_buffers is cleared and every chunk
\* of the world meshed.
update_world_geometry(ws) ==
    [ws EXCEPT
        !.chunk_buffers =
            [cp \in DOMAIN ws.world |->
                FlatMapLayers(ws.world[cp], 0, cp, ws.highlighted)]]

\* update_aim that re-meshes the new highlight's chunk without comparing it
\* with the old one's.
update_aim_twice(ws, cam) ==
    LET old == ws.highlighted
        new == raycast(ws.world, cam.position, direction(cam))
        old_chunk == {ChunkOf(h[1]) : h \in old}
        new_chunk == {ChunkOf(h[1]) : h \in new}
        s1 == [ws EXCEPT !.highlighted = new]
        s2 == IF old_chunk # {}
              THEN update_chunk_geometry(s1, CHOOSE c \in old_chunk : TRUE)
              ELSE s1
        s3 == IF new_chunk # {}
              THEN update_chunk_geometry(s2, CHOOSE c \in new_chunk : TRUE)
              ELSE s2
    IN  IF old # new THEN s3 ELSE ws

\* WorldState::update_aim with the camera cam.
update_aim(ws, cam) ==
    LET old == ws.highlighted
        new == raycast(ws.world, cam.position, direction(cam))
        old_chunk == {ChunkOf(h[1]) : h \in old}
        new_chunk == {ChunkOf(h[1]) : h \in new}
        s1 == [ws EXCEPT !.highlighted = new]
        s2 == IF old_chunk # {}
              THEN update_chunk_geometry(s1, CHOOSE c \in old_chunk : TRUE)
              ELSE s1
        s3 == IF new_chunk # {} /\ old_chunk # new_chunk
              THEN update_chunk_geometry(s2, CHOOSE c \in new_chunk : TRUE)
              ELSE s2
    IN  IF old # new THEN s3 ELSE ws

\* WorldState::input_mouse_button with the camera cam: Left removes the hit
\* block, Right puts Cobblestone at pos - axis; either way the chunk of the hit
\* block is re-meshed.
input_mouse_button(ws, cam, button) ==
    LET hit == raycast(ws.world, cam.position, direction(cam))
        pos == (CHOOSE h \in hit : TRUE)[1]
        axis == (CHOOSE h \in hit : TRUE)[2]
    IN  IF hit = {} THEN ws
        ELSE IF button = "Left"
        THEN update_chunk_geometry(
                 [ws EXCEPT !.world = set_block(ws.world, pos, "None")], ChunkOf(pos))
        ELSE IF button = "Right"
        THEN update_chunk_geometry(
                 [ws EXCEPT !.world = set_block(ws.world, Sub3(pos, axis), "Cobblestone")],
                 ChunkOf(pos))
        ELSE ws

\* ------------------------------------------------------------------- state

VARIABLES
    chunk,          \* the Chunk under test: [blocks, buffers, full]
    chunk_coords,   \* its chunk coordinate
    highlighted,    \* Option<(global block position, face normal)>
    edits,          \* single-block edits made so far
    op,             \* the operation that ran last, with its result
    store,          \* the key-value store: key -> record
    noise,          \* the fixed noise functions of generate
    ios,            \* save and load calls made so far
    saved,          \* chunk coordinate -> the grid last saved under it
    recorded,       \* chunk coordinates that have a record in the store
    firstGen,       \* chunk coordinate -> the grid first generated for it
    world,          \* World.chunks: chunk position -> block grid
    camera,         \* the camera: its cell, and its yaw and pitch or its direction
    chunk_buffers,  \* WorldState.chunk_buffers: chunk position -> geometry
    jobs,           \* update_geometry's layer jobs: layer -> position and locals
    geometry        \* quads_to_geometry's loop: vertices and quads appended

storeVars == <<store, noise, ios, saved, recorded, firstGen>>

worldVars == <<world, camera, chunk_buffers>>

\* The geometry quads_to_geometry starts from.
EmptyGeometry == [vertices_len |-> 0, quads_done |-> 0]

vars == <<chunk, chunk_coords, highlighted, edits, op, storeVars, worldVars, jobs,
          geometry>>

\* ------------------------------------------------------ chunk meshing model

\* Grids a chunk holds before the edits: layers stacked from a few patterns.
LayerOf(kind) == [z \in Idx |-> [x \in Idx |-> kind]]
Stripes(a, b) == [z \in Idx |-> [x \in Idx |-> IF x = 0 THEN a ELSE b]]
Hole(a) == [z \in Idx |-> [x \in Idx |-> IF x = 1 /\ z = 1 THEN "None" ELSE a]]

BaseGrids ==
    { [y \in Idx |-> LayerOf("None")],
      [y \in Idx |-> LayerOf("Stone")],
      [y \in Idx |-> LayerOf("Water")],
      [y \in Idx |-> IF y = 0 THEN LayerOf("Stone") ELSE LayerOf("None")],
      [y \in Idx |-> IF y = 0 THEN LayerOf("Stone")
                     ELSE IF y = 1 THEN Stripes("Dirt", "Stone") ELSE LayerOf("Water")],
      [y \in Idx |-> IF y = 1 THEN Hole("Stone") ELSE LayerOf("Stone")] }

MeshCoords == {<<-1, 2, 1>>}

\* The highlights tried on a chunk at cc: none, any cell of the chunk, and a
\* cell of the chunk next to it; the normal is one of two, by the cell.
Highlights(cc) ==
    {{}} \cup
    {{<<Add3(Scale3(cc, CHUNK_SIZE), l),
        IF (l[1] + l[2] + l[3]) % 2 = 0 THEN <<0, 1, 0>> ELSE <<-1, 0, 0>> >>} :
        l \in (Idx \X Idx \X Idx) \cup {<<CHUNK_SIZE, 0, 0>>}}

InitMesh ==
    /\ chunk \in {[DefaultChunk EXCEPT !.blocks = g] : g \in BaseGrids}
    /\ chunk_coords \in MeshCoords
    /\ highlighted \in Highlights(chunk_coords)
    /\ edits = 0
    /\ op = [name |-> "init"]
    /\ store = <<>>
    /\ noise = DefaultNoise
    /\ ios = 0
    /\ saved = <<>>
    /\ recorded = {}
    /\ firstGen = <<>>
    /\ jobs = <<>>
    /\ geometry = EmptyGeometry
    /\ world = <<>>
    /\ camera = InitCamera
    /\ chunk_buffers = <<>>

\* A single-block edit of the grid (what World::set_block does to one chunk).
EditBlock(x, y, z, b) ==
    /\ edits < MaxEdits
    /\ chunk' = [chunk EXCEPT !.blocks[y][z][x] = b]
    /\ edits' = edits + 1
    /\ op' = [name |-> "edit"]
    /\ UNCHANGED <<jobs, geometry, chunk_coords, highlighted, storeVars, worldVars>>

UpdateGeometry ==
    /\ op.name # "update_geometry"
    /\ chunk' = update_geometry(chunk, chunk_coords, highlighted)
    /\ op' = [name |-> "update_geometry", was_full |-> chunk.full]
    /\ UNCHANGED <<jobs, geometry, chunk_coords, highlighted, edits, storeVars, worldVars>>

\* update_fullness called on its own, after the grid was set or edited.
UpdateFullness ==
    /\ op.name \in {"init", "edit"}
    /\ chunk' = update_fullness(chunk)
    /\ op' = [name |-> "update_fullness", was_full |-> chunk.full]
    /\ UNCHANGED <<jobs, geometry, chunk_coords, highlighted, edits, storeVars, worldVars>>

NextMesh ==
    \/ \E x \in Idx, y \in Idx, z \in Idx, b \in EditTypes \cup {"None"} :
           EditBlock(x, y, z, b)
    \/ UpdateGeometry
    \/ UpdateFullness

SpecMesh == InitMesh /\ [][NextMesh]_vars

\* ------------------------------------------------------ persistence model

\* The first chunk_y that generate does not fill with water.
SeaChunkY == 128 \div CHUNK_SIZE

LoadCoords == {<<0, 0, 0>>, <<-1, SeaChunkY - 1, 1>>, <<0, SeaChunkY, 0>>}

\* A grid with no symmetry between its axes, to fill the records with.
RecordGrid ==
    [y \in Idx |-> IF y = 0 THEN LayerOf("Stone")
                   ELSE IF y = 1 THEN Stripes("Dirt", "Stone") ELSE LayerOf("Water")]

\* Records a store may hold before the program's first save: a well-formed
\* one, an array one element short, bytes that end after two elements, and an
\* element that is no Option<Block>.
InitRecords ==
    { serialize([DefaultChunk EXCEPT !.blocks = RecordGrid]),
      [len |-> Volume - 1,
       elems |-> SubSeq(serialize([DefaultChunk EXCEPT !.blocks = RecordGrid]).elems,
                        1, Volume - 1)],
      [len |-> Volume,
       elems |-> SubSeq(serialize([DefaultChunk EXCEPT !.blocks = RecordGrid]).elems, 1, 2)],
      [len |-> Volume,
       elems |-> [serialize([DefaultChunk EXCEPT !.blocks = RecordGrid]).elems
                     EXCEPT ![3] = {[block_type |-> "?"]}]] }

\* What a store holds before the program's first save: nothing, or one of
\* these records under the key of one coordinate.
InitStores ==
    {{}} \cup {{<<p, d>>} : p \in LoadCoords, d \in InitRecords}

\* Cells and kinds the persistence model edits.
StoreEditCells == {<<0, 0, 0>>, <<2, 1, 0>>, <<1, 2, 2>>}

InitStore ==
    /\ chunk \in {[DefaultChunk EXCEPT !.blocks = g] : g \in BaseGrids}
    /\ chunk_coords \in LoadCoords
    /\ highlighted = {}
    /\ edits = 0
    /\ op = [name |-> "init"]
    /\ \E init \in InitStores :
        /\ store = [k \in {ChunkKey(e[1]) : e \in init} |->
                       (CHOOSE e \in init : ChunkKey(e[1]) = k)[2]]
        /\ recorded = {e[1] : e \in init}
    /\ noise = DefaultNoise
    /\ ios = 0
    /\ saved = <<>>
    /\ firstGen = <<>>
    /\ jobs = <<>>
    /\ geometry = EmptyGeometry
    /\ world = <<>>
    /\ camera = InitCamera
    /\ chunk_buffers = <<>>

\* A panic ends the program.
Running == ~(op.name = "load" /\ op.result = "panic")

Save ==
    /\ Running
    /\ ios < MaxIO
    /\ store' = save(chunk, chunk_coords, store)
    /\ saved' = [p \in DOMAIN saved \cup {chunk_coords} |->
                    IF p = chunk_coords THEN chunk.blocks ELSE saved[p]]
    /\ recorded' = recorded \cup {chunk_coords}
    /\ ios' = ios + 1
    /\ op' = [name |-> "save"]
    /\ UNCHANGED <<jobs, geometry, chunk, chunk_coords, highlighted, edits, noise, firstGen, worldVars>>

\* load(position), on a fresh default chunk or on the chunk at hand.
Load(position, fresh) ==
    LET before == IF fresh THEN DefaultChunk ELSE chunk
        r == load(before, position, store, noise)
    IN  /\ Running
        /\ ios < MaxIO
        /\ chunk' = r.chunk
        /\ chunk_coords' = position
        /\ ios' = ios + 1
        /\ op' = [name |-> "load", position |-> position, fresh |-> fresh,
                  before |-> before, result |-> r.result,
                  had_record |-> position \in recorded,
                  again |-> position \in DOMAIN firstGen,
                  regen |-> /\ ~fresh
                            /\ op.name = "load"
                            /\ op.result = "Ok(true)"
                            /\ op.position = position]
        /\ firstGen' =
            IF fresh /\ r.result = "Ok(true)" /\ position \notin DOMAIN firstGen
            THEN [p \in DOMAIN firstGen \cup {position} |->
                     IF p = position THEN r.chunk.blocks ELSE firstGen[p]]
            ELSE firstGen
        /\ UNCHANGED <<jobs, geometry, highlighted, edits, store, noise, saved, recorded, worldVars>>

NextStore ==
    \/ \E c \in StoreEditCells, b \in {"None", "Cobblestone"} :
           Running /\ EditBlock(c[1], c[2], c[3], b)
    \/ Save
    \/ \E position \in LoadCoords, fresh \in BOOLEAN : Load(position, fresh)

SpecStore == InitStore /\ [][NextStore]_vars

\* ------------------------------------------------------------ world model

\* The world is a row of chunks along x.
WorldSizeX == 2

WorldChunks == {<<cx, 0, 0>> : cx \in 0..(WorldSizeX - 1)}

\* Worlds the program starts from: a stone floor, a stone block with a hole
\* next to striped terrain, and a pool of water next to solid stone.
BaseWorlds ==
    { [cp \in WorldChunks |->
          [y \in Idx |-> IF y = 0 THEN LayerOf("Stone") ELSE LayerOf("None")]],
      [cp \in WorldChunks |->
          IF cp[1] = 0
          THEN [y \in Idx |-> IF y = 1 THEN Hole("Stone") ELSE LayerOf("Stone")]
          ELSE [y \in Idx |-> IF y = 0 THEN LayerOf("Stone")
                              ELSE IF y = 1 THEN Stripes("Dirt", "Stone")
                              ELSE LayerOf("None")]],
      [cp \in WorldChunks |->
          IF cp[1] = 0
          THEN [y \in Idx |-> IF y = 0 THEN LayerOf("Water") ELSE LayerOf("None")]
          ELSE [y \in Idx |-> LayerOf("Stone")]] }

\* Cells the camera moves between: in the row y = 1, z = 1 of each of the two
\* chunks at the seam, and above the seam.
CameraCells ==
    {<<1, 1, 1>>, <<CHUNK_SIZE + 1, 1, 1>>, <<CHUNK_SIZE, CHUNK_SIZE, 1>>}

\* The WorldState fields the handlers work on, with an empty call log.
WS == [world |-> world, highlighted |-> highlighted,
       chunk_buffers |-> chunk_buffers, remeshed |-> <<>>]

\* WorldState::new: the world, no highlight, every chunk meshed.
InitWorld ==
    /\ world \in BaseWorlds
    /\ highlighted = {}
    /\ chunk_buffers =
           update_world_geometry([world |-> world, highlighted |-> {},
                                  chunk_buffers |-> <<>>,
                                  remeshed |-> <<>>]).chunk_buffers
    /\ camera = InitCamera
    /\ edits = 0
    /\ op = [name |-> "init"]
    /\ chunk = DefaultChunk
    /\ chunk_coords = <<0, 0, 0>>
    /\ store = <<>>
    /\ noise = DefaultNoise
    /\ ios = 0
    /\ saved = <<>>
    /\ recorded = {}
    /\ firstGen = <<>>
    /\ jobs = <<>>
    /\ geometry = EmptyGeometry

\* WorldState::update: the camera has moved to a cell, then update_aim.
Update(position) ==
    /\ camera' = [camera EXCEPT !.position = position]
    /\ LET ws == update_aim(WS, camera')
       IN  /\ highlighted' = ws.highlighted
           /\ chunk_buffers' = ws.chunk_buffers
           /\ op' = [name |-> "update_aim", old |-> highlighted,
                     new |-> raycast(world, camera'.position, direction(camera')),
                     remeshed |-> ws.remeshed]
    /\ UNCHANGED <<jobs, geometry, world, edits, chunk, chunk_coords, storeVars>>

\* WorldState::update_camera(dx, dy), for a move that leaves the camera in
\* one of the views.
UpdateCamera(dx, dy) ==
    /\ camera' = update_camera(camera, dx, dy)
    /\ [yaw |-> camera'.yaw, pitch |-> camera'.pitch] \in Views
    /\ op' = [name |-> "update_camera"]
    /\ UNCHANGED <<jobs, geometry, world, highlighted, chunk_buffers, edits, chunk, chunk_coords,
                   storeVars>>

\* WorldState::update_world_geometry called on its own.
UpdateWorldGeometry ==
    /\ chunk_buffers' = update_world_geometry(WS).chunk_buffers
    /\ op' = [name |-> "update_world_geometry"]
    /\ UNCHANGED <<jobs, geometry, world, highlighted, camera, edits, chunk, chunk_coords,
                   storeVars>>

\* WorldState::update_chunk_geometry(chunk_position) called on its own.
UpdateChunkGeometry(chunk_position) ==
    /\ chunk_buffers' = update_chunk_geometry(WS, chunk_position).chunk_buffers
    /\ op' = [name |-> "update_chunk_geometry", position |-> chunk_position]
    /\ UNCHANGED <<jobs, geometry, world, highlighted, camera, edits, chunk, chunk_coords,
                   storeVars>>

\* WorldState::input_mouse_button.
InputMouseButton(button) ==
    /\ edits < MaxEdits
    /\ LET ws == input_mouse_button(WS, camera, button)
       IN  /\ world' = ws.world
           /\ chunk_buffers' = ws.chunk_buffers
           /\ op' = [name |-> "input_mouse_button", button |-> button,
                     hit |-> raycast(world, camera.position, direction(camera)),
                     before |-> world, remeshed |-> ws.remeshed]
    /\ edits' = edits + 1
    /\ UNCHANGED <<jobs, geometry, highlighted, camera, chunk, chunk_coords, storeVars>>

NextWorld ==
    \/ \E position \in CameraCells : Update(position)
    \/ \E m \in MouseMoves : UpdateCamera(m[1], m[2])
    \/ \E button \in {"Left", "Right", "Middle"} : InputMouseButton(button)
    \/ UpdateWorldGeometry
    \/ \E cp \in WorldChunks : UpdateChunkGeometry(cp)

SpecWorld == InitWorld /\ [][NextWorld]_vars

\* ---------------------------------------------------------- ray cast model

\* Worlds the rays are cast in: the starting worlds, a world whose only block
\* is at (0, 0, 0), and a world without blocks.
RayWorlds ==
    BaseWorlds \cup
    { [cp \in WorldChunks |->
          [y \in Idx |-> [z \in Idx |-> [x \in Idx |->
              IF cp = <<0, 0, 0>> /\ x = 0 /\ y = 0 /\ z = 0 THEN "Stone" ELSE "None"]]]],
      [cp \in WorldChunks |-> [y \in Idx |-> LayerOf("None")]] }

\* Ray origins: in and around the row y = 1, z = 1 of the chunks, above them,
\* and MaxRaySteps cells above the world's first cell.
RayOrigins ==
    {<<x, y, 1>> : x \in (-1)..(2 * CHUNK_SIZE), y \in {1, CHUNK_SIZE}} \cup
    {<<0, MaxRaySteps, 0>>, <<0, MaxRaySteps + 1, 0>>}

\* Ray directions: every vector with components in -1..1 but the null one, and
\* some steeper ones.
RayDirs ==
    (({-1, 0, 1} \X {-1, 0, 1} \X {-1, 0, 1}) \ {<<0, 0, 0>>}) \cup
    {<<2, -1, 0>>, <<-2, -1, 0>>, <<1, -2, 1>>, <<-3, 1, 0>>}

InitRay ==
    /\ world \in RayWorlds
    /\ camera \in [position : RayOrigins, direction : RayDirs]
    /\ op = [name |-> "init"]
    /\ highlighted = {}
    /\ chunk_buffers = <<>>
    /\ edits = 0
    /\ chunk = DefaultChunk
    /\ chunk_coords = <<0, 0, 0>>
    /\ store = <<>>
    /\ noise = DefaultNoise
    /\ ios = 0
    /\ saved = <<>>
    /\ recorded = {}
    /\ firstGen = <<>>
    /\ jobs = <<>>
    /\ geometry = EmptyGeometry

\* World::raycast from the camera, as update_aim and input_mouse_button call
\* it; op keeps the result and the number of cells visited.
Raycast ==
    /\ op.name = "init"
    /\ op' = [name |-> "raycast",
              hit |-> raycast(world, camera.position, camera.direction),
              steps |-> RayMarch(world, camera.position, camera.direction,
                                 <<1, 1, 1>>, 0).steps]
    /\ UNCHANGED <<jobs, geometry, world, camera, highlighted, chunk_buffers, edits, chunk,
                   chunk_coords, storeVars>>

NextRay == Raycast

SpecRay == InitRay /\ [][NextRay]_vars

\* ------------------------------------------------------- layer job model

\* The turn of a job whose visited set is one set shared by all the layer
\* jobs of the chunk.
layer_to_quads_turn_shared_visited(job, y, offset, highlight) ==
    LET x == Head(job.queue)[1]
        z == Head(job.queue)[2]
        position == Add3(offset, <<x, y, z>>)
        hl == {h[1] : h \in highlight}
        visited == UNION {jobs[l].visited : l \in DOMAIN jobs}
        rest == Tail(job.queue)
    IN  IF <<x, z>> \in visited
        THEN [job EXCEPT !.queue = rest]
        ELSE
        LET visited1 == visited \cup {<<x, z>>} IN
        IF <<x, z>> \notin DOMAIN job.culled
        THEN [job EXCEPT !.queue = rest, !.visited = visited1]
        ELSE
        LET block_type == job.culled[<<x, z>>].block_type
            visible_faces == job.culled[<<x, z>>].visible_faces
        IN  IF hl = {<<x, y, z>>}
            THEN [job EXCEPT
                     !.queue = rest,
                     !.visited = visited1,
                     !.quads = Append(@,
                         [NewQuad(position, 1, 1) EXCEPT
                             !.highlighted_normal = (CHOOSE h \in highlight : TRUE)[2],
                             !.visible_faces = visible_faces,
                             !.block_type = block_type])]
            ELSE IF is_unmerged_kind(block_type)
            THEN [job EXCEPT
                     !.queue = rest,
                     !.visited = visited1,
                     !.quads = Append(@,
                         [NewQuad(position, 1, 1) EXCEPT
                             !.visible_faces = visible_faces,
                             !.block_type = block_type])]
            ELSE
            LET ex == ExtendX(x, x + 1, visible_faces, visited1, y, z,
                              block_type, job.culled, hl)
                ez == ExtendZ(z, z + 1, ex.quad_faces, ex.visited, x, ex.xmax, y,
                              block_type, job.culled, hl)
            IN  [job EXCEPT
                     !.queue = rest,
                     !.visited = ez.visited,
                     !.quads = Append(@,
                         [NewQuad(position, ex.xmax - x, ez.zmax - z) EXCEPT
                             !.visible_faces = ez.quad_faces,
                             !.block_type = block_type])]

\* One turn of the loop "while let Some((x, z)) = queue.pop_front()" of
\* layer_to_quads, on the locals of the job that runs it: job = [pc, culled,
\* queue, visited, quads]. Only the job's own locals are read and written.
layer_to_quads_turn(job, y, offset, highlight) ==
    LET x == Head(job.queue)[1]
        z == Head(job.queue)[2]
        position == Add3(offset, <<x, y, z>>)
        hl == {h[1] : h \in highlight}
        visited == job.visited
        rest == Tail(job.queue)
    IN  IF <<x, z>> \in visited
        THEN [job EXCEPT !.queue = rest]
        ELSE
        LET visited1 == visited \cup {<<x, z>>} IN
        IF <<x, z>> \notin DOMAIN job.culled
        THEN [job EXCEPT !.queue = rest, !.visited = visited1]
        ELSE
        LET block_type == job.culled[<<x, z>>].block_type
            visible_faces == job.culled[<<x, z>>].visible_faces
        IN  IF hl = {<<x, y, z>>}
            THEN [job EXCEPT
                     !.queue = rest,
                     !.visited = visited1,
                     !.quads = Append(@,
                         [NewQuad(position, 1, 1) EXCEPT
                             !.highlighted_normal = (CHOOSE h \in highlight : TRUE)[2],
                             !.visible_faces = visible_faces,
                             !.block_type = block_type])]
            ELSE IF is_unmerged_kind(block_type)
            THEN [job EXCEPT
                     !.queue = rest,
                     !.visited = visited1,
                     !.quads = Append(@,
                         [NewQuad(position, 1, 1) EXCEPT
                             !.visible_faces = visible_faces,
                             !.block_type = block_type])]
            ELSE
            LET ex == ExtendX(x, x + 1, visible_faces, visited1, y, z,
                              block_type, job.culled, hl)
                ez == ExtendZ(z, z + 1, ex.quad_faces, ex.visited, x, ex.xmax, y,
                              block_type, job.culled, hl)
            IN  [job EXCEPT
                     !.queue = rest,
                     !.visited = ez.visited,
                     !.quads = Append(@,
                         [NewQuad(position, ex.xmax - x, ez.zmax - z) EXCEPT
                             !.visible_faces = ez.quad_faces,
                             !.block_type = block_type])]

\* The highlight in the chunk's local coordinates, as update_geometry hands it
\* to every layer job.
JobHighlight ==
    UNION {{<<l, h[2]>> : l \in block_coords_to_local(chunk_coords, h[1])} :
              h \in highlighted}

\* The quads of the layers y.. in layer order, as collect() gathers them.
RECURSIVE Collect(_, _)
Collect(js, y) ==
    IF y >= CHUNK_SIZE THEN <<>> ELSE js[y].quads \o Collect(js, y + 1)

\* The highlights the layer jobs are run under: none, a corner cell, the cell
\* in the middle, a cell on an edge, and a cell of the chunk next to it.
LayerHighlights(cc) ==
    {{}} \cup
    {h \in Highlights(cc) :
        \E l \in {<<0, 0, 0>>, <<1, 1, 1>>, <<CHUNK_SIZE - 1, 1, 0>>, <<CHUNK_SIZE, 0, 0>>} :
            \A e \in h : e[1] = Add3(Scale3(cc, CHUNK_SIZE), l)}

\* update_geometry is entered: one job per layer, none started.
InitLayers ==
    /\ chunk \in {[DefaultChunk EXCEPT !.blocks = g] : g \in BaseGrids}
    /\ chunk_coords \in MeshCoords
    /\ highlighted \in LayerHighlights(chunk_coords)
    /\ jobs = [y \in Idx |-> [pc |-> "start", culled |-> <<>>, queue |-> <<>>,
                              visited |-> {}, quads |-> <<>>]]
    /\ geometry = EmptyGeometry
    /\ op = [name |-> "fan_out", order |-> <<>>]
    /\ edits = 0
    /\ store = <<>>
    /\ noise = DefaultNoise
    /\ ios = 0
    /\ saved = <<>>
    /\ recorded = {}
    /\ firstGen = <<>>
    /\ world = <<>>
    /\ camera = InitCamera
    /\ chunk_buffers = <<>>

\* The job of layer y runs cull_layer and enters layer_to_quads with no quads
\* and nothing visited.
CullLayer(y) ==
    /\ jobs[y].pc = "start"
    /\ jobs' = [jobs EXCEPT ![y].pc = "culled",
                            ![y].culled = cull_layer(chunk.blocks, y).culled,
                            ![y].queue = cull_layer(chunk.blocks, y).queue,
                            ![y].visited = {},
                            ![y].quads = <<>>]
    /\ UNCHANGED <<chunk, chunk_coords, highlighted, edits, op, storeVars, worldVars,
                   geometry>>

\* The job of layer y takes the next cell off its queue.
MergeTurn(y) ==
    /\ jobs[y].pc = "culled"
    /\ jobs[y].queue # <<>>
    /\ jobs' = [jobs EXCEPT ![y] = layer_to_quads_turn(jobs[y], y,
                                       Scale3(chunk_coords, CHUNK_SIZE), JobHighlight)]
    /\ UNCHANGED <<chunk, chunk_coords, highlighted, edits, op, storeVars, worldVars,
                   geometry>>

\* The queue of the job of layer y is empty: layer_to_quads returns its quads
\* and the job completes.
FinishLayer(y) ==
    /\ jobs[y].pc = "culled"
    /\ jobs[y].queue = <<>>
    /\ jobs' = [jobs EXCEPT ![y].pc = "done"]
    /\ op' = [op EXCEPT !.order = Append(@, y)]
    /\ UNCHANGED <<chunk, chunk_coords, highlighted, edits, storeVars, worldVars,
                   geometry>>

\* All jobs have completed: collect() gathers their quads, the geometry is
\* installed and update_fullness runs.
Join ==
    /\ op.name = "fan_out"
    /\ \A y \in Idx : jobs[y].pc = "done"
    /\ chunk' = update_fullness([chunk EXCEPT !.buffers = {Collect(jobs, 0)}])
    /\ op' = [op EXCEPT !.name = "join"]
    /\ UNCHANGED <<jobs, geometry, chunk_coords, highlighted, edits, storeVars, worldVars>>

NextLayers ==
    \/ \E y \in Idx : CullLayer(y)
    \/ \E y \in Idx : MergeTurn(y)
    \/ \E y \in Idx : FinishLayer(y)
    \/ Join

SpecLayers == InitLayers /\ [][NextLayers]_vars

\* ------------------------------------------------------ coordinate model

\* Chunk coordinates and global block coordinates the relation is tried on:
\* both sides of zero on every axis, every block in one of the chunks.
CoordChunks == ((-2)..1) \X ((-2)..1) \X ((-1)..0)

CoordBlocks ==
    ((-CHUNK_SIZE - 1)..CHUNK_SIZE) \X ((-CHUNK_SIZE - 1)..CHUNK_SIZE)
        \X ((-CHUNK_SIZE)..(CHUNK_SIZE - 1))

\* update_geometry is entered with a chunk coordinate and a highlight.
InitCoords ==
    /\ chunk_coords \in CoordChunks
    /\ highlighted \in {{<<b, <<0, 1, 0>>>>} : b \in CoordBlocks}
    /\ op = [name |-> "init"]
    /\ chunk = DefaultChunk
    /\ edits = 0
    /\ store = <<>>
    /\ noise = DefaultNoise
    /\ ios = 0
    /\ saved = <<>>
    /\ recorded = {}
    /\ firstGen = <<>>
    /\ jobs = <<>>
    /\ geometry = EmptyGeometry
    /\ world = <<>>
    /\ camera = InitCamera
    /\ chunk_buffers = <<>>

\* update_geometry maps the highlight into the chunk.
ToLocal ==
    /\ op.name = "init"
    /\ op' = [name |-> "block_coords_to_local",
              result |-> UNION {block_coords_to_local(chunk_coords, h[1]) :
                                   h \in highlighted}]
    /\ UNCHANGED <<jobs, geometry, chunk, chunk_coords, highlighted, edits, storeVars, worldVars>>

NextCoords == ToLocal

SpecCoords == InitCoords /\ [][NextCoords]_vars

\* ------------------------------------------------- reading a meshing result

\* The chunk's geometry is that of its current grid and highlight.
Meshed == op.name = "update_geometry"

\* The quads installed in the chunk (none when no geometry is installed).
Quads == IF chunk.buffers = {} THEN <<>> ELSE CHOOSE q \in chunk.buffers : TRUE

\* A quad's anchor in chunk-local coordinates.
Anchor(q) == Sub3(q.position, Scale3(chunk_coords, CHUNK_SIZE))

\* Cell (x, y, z) lies in the rectangle of quad q.
InRect(q, x, y, z) ==
    /\ Anchor(q)[2] = y
    /\ Anchor(q)[1] <= x /\ x < Anchor(q)[1] + q.dx
    /\ Anchor(q)[3] <= z /\ z < Anchor(q)[3] + q.dz

\* Quad q covers face f of cell (x, y, z): top and bottom on every cell of the
\* rectangle, a side face on the cells of the rectangle's edge on that side.
Covers(q, x, y, z, f) ==
    /\ InRect(q, x, y, z)
    /\ f \in q.visible_faces
    /\ (f = "LEFT" => x = Anchor(q)[1])
    /\ (f = "RIGHT" => x = Anchor(q)[1] + q.dx - 1)
    /\ (f = "BACK" => z = Anchor(q)[3])
    /\ (f = "FRONT" => z = Anchor(q)[3] + q.dz - 1)

QuadsCovering(x, y, z, f) == {i \in DOMAIN Quads : Covers(Quads[i], x, y, z, f)}

QuadsContaining(x, y, z) == {i \in DOMAIN Quads : InRect(Quads[i], x, y, z)}

\* (cell, face) pairs of layer y covered by the emitted quads.
CoveredFaces(y) ==
    {cf \in (Idx \X Idx) \X FACE_ALL : QuadsCovering(cf[1][1], y, cf[1][2], cf[2]) # {}}

\* (cell, face) pairs of layer y that cull_layer marked visible.
CulledFaces(y) ==
    LET culled == cull_layer(chunk.blocks, y).culled
    IN  {cf \in (Idx \X Idx) \X FACE_ALL :
            cf[1] \in DOMAIN culled /\ cf[2] \in culled[cf[1]].visible_faces}

Occupied(x, y, z) == chunk.blocks[y][z][x] # "None"

\* The highlight as a cell of this chunk, if it lies in it.
LocalHighlight ==
    UNION {block_coords_to_local(chunk_coords, h[1]) : h \in highlighted}

\* ------------------------------------------------------------------ claims

\* C1: for every layer, the (cell, face) pairs covered by the emitted quads
\* are exactly the pairs the cull pass marked visible: merging neither hides
\* nor fabricates a face.
C1_CoverageEqualsCull ==
    Meshed => \A y \in Idx : CoveredFaces(y) = CulledFaces(y)

\* C2: merging never hides a face: every face check_visible_faces marks
\* visible on an occupied cell is covered by exactly one emitted quad.
C2_NoFaceHidden ==
    Meshed =>
        \A x \in Idx, y \in Idx, z \in Idx :
            Occupied(x, y, z) =>
                \A f \in check_visible_faces(chunk.blocks, x, y, z) :
                    Cardinality(QuadsCovering(x, y, z, f)) = 1

\* C2 witness: a mesh holding a quad of two or more cells whose cells carry
\* different visible-face masks.
C2_Witness ==
    /\ Meshed
    /\ \E i \in DOMAIN Quads :
        /\ Quads[i].dx > 1
        /\ Quads[i].dz > 1
        /\ \E x1 \in Idx, x2 \in Idx, z1 \in Idx, z2 \in Idx, y \in Idx :
            /\ InRect(Quads[i], x1, y, z1)
            /\ InRect(Quads[i], x2, y, z2)
            /\ check_visible_faces(chunk.blocks, x1, y, z1)
                   # check_visible_faces(chunk.blocks, x2, y, z2)

\* The highlight lies in this chunk, on an occupied cell.
HighlightOnBlock ==
    \E l \in LocalHighlight : Occupied(l[1], l[2], l[3])

\* Exactly one quad contains cell l, and it is the 1x1 quad anchored at l that
\* carries the highlight's normal.
OwnHighlightQuad(l) ==
    /\ Cardinality(QuadsContaining(l[1], l[2], l[3])) = 1
    /\ \A i \in QuadsContaining(l[1], l[2], l[3]) :
        /\ Anchor(Quads[i]) = l
        /\ Quads[i].dx = 1
        /\ Quads[i].dz = 1
        /\ \A h \in highlighted : Quads[i].highlighted_normal = h[2]

\* C3 as stated: a highlight on an occupied cell of the chunk is emitted as
\* its own 1x1 quad carrying the highlighted-face normal, whatever surrounds
\* the cell, and no other quad contains the cell.
C3_HighlightAlwaysOwnQuad ==
    Meshed => \A l \in LocalHighlight :
        Occupied(l[1], l[2], l[3]) => OwnHighlightQuad(l)

\* C3 amended: a highlighted occupied cell with at least one visible face is
\* emitted as its own 1x1 quad carrying the highlighted-face normal and lies
\* in no other quad; a highlighted cell the cull pass drops (no visible face)
\* lies in no quad at all.
C3_HighlightOwnQuadIfVisible ==
    Meshed => \A l \in LocalHighlight :
        Occupied(l[1], l[2], l[3]) =>
            IF check_visible_faces(chunk.blocks, l[1], l[2], l[3]) # FACE_NONE
            THEN OwnHighlightQuad(l)
            ELSE QuadsContaining(l[1], l[2], l[3]) = {}

\* C3 witness: the mesh of a chunk whose highlighted cell is visible and has,
\* at x - 1 in its row, a visible cell of the same kind that merges.
C3_Witness ==
    /\ Meshed
    /\ \E l \in LocalHighlight :
        /\ l[1] > 0
        /\ Occupied(l[1], l[2], l[3])
        /\ ~is_unmerged_kind(chunk.blocks[l[2]][l[3]][l[1]])
        /\ chunk.blocks[l[2]][l[3]][l[1] - 1] = chunk.blocks[l[2]][l[3]][l[1]]
        /\ check_visible_faces(chunk.blocks, l[1], l[2], l[3]) # FACE_NONE
        /\ check_visible_faces(chunk.blocks, l[1] - 1, l[2], l[3]) # FACE_NONE
        /\ OwnHighlightQuad(l)

\* C4: water is never merged: every water quad is 1x1 and no quad of another
\* kind has a water cell inside its rectangle.
C4_WaterNeverMerged ==
    Meshed => \A i \in DOMAIN Quads :
        /\ Quads[i].block_type = "Water" => Quads[i].dx = 1 /\ Quads[i].dz = 1
        /\ Quads[i].block_type # "Water" =>
            \A x \in Idx, y \in Idx, z \in Idx :
                InRect(Quads[i], x, y, z) => chunk.blocks[y][z][x] # "Water"

\* C4 witness: a mesh in which two water cells adjacent in one layer both
\* have visible faces and neither is the highlight.
C4_Witness ==
    /\ Meshed
    /\ \E x \in Idx, y \in Idx, z \in Idx :
        /\ x + 1 \in Idx
        /\ chunk.blocks[y][z][x] = "Water"
        /\ chunk.blocks[y][z][x + 1] = "Water"
        /\ <<x, y, z>> \notin LocalHighlight
        /\ <<x + 1, y, z>> \notin LocalHighlight
        /\ check_visible_faces(chunk.blocks, x, y, z) # FACE_NONE
        /\ check_visible_faces(chunk.blocks, x + 1, y, z) # FACE_NONE
        /\ QuadsContaining(x, y, z) # QuadsContaining(x + 1, y, z)

\* Every cell of the chunk holds an opaque block.
FullOpaque ==
    \A x \in Idx, y \in Idx, z \in Idx :
        Occupied(x, y, z) /\ ~is_transparent(chunk.blocks[y][z][x])

\* Cell (x, y, z) has a face on the chunk's boundary.
OnBoundary(x, y, z) ==
    \/ x = 0 \/ x = CHUNK_SIZE - 1
    \/ y = 0 \/ y = CHUNK_SIZE - 1
    \/ z = 0 \/ z = CHUNK_SIZE - 1

\* C10 as stated: a chunk filled with opaque blocks (its neighbour chunks
\* filled likewise; update_geometry reads no chunk but its own, so the mesh is
\* the same whatever they hold) meshes to zero quads.
C10_FullOpaqueNoQuads ==
    (Meshed /\ FullOpaque) => Len(Quads) = 0

\* C10 amended: a chunk filled with opaque blocks meshes to a non-empty list
\* of quads that tile exactly its boundary cells: every cell with a face on
\* the chunk boundary lies in exactly one quad, every other cell in none.
C10_FullOpaqueBoundaryOnly ==
    (Meshed /\ FullOpaque) =>
        /\ Len(Quads) > 0
        /\ \A x \in Idx, y \in Idx, z \in Idx :
            Cardinality(QuadsContaining(x, y, z)) = IF OnBoundary(x, y, z) THEN 1 ELSE 0

\* C10 witness: the mesh of a chunk filled with opaque blocks of two kinds
\* that has a cell off the boundary.
C10_Witness ==
    /\ Meshed
    /\ FullOpaque
    /\ \E x \in Idx, y \in Idx, z \in Idx : ~OnBoundary(x, y, z)
    /\ \E x \in Idx, y \in Idx, z \in Idx : chunk.blocks[y][z][x] # chunk.blocks[0][0][0]
    /\ Len(Quads) > 0

\* C5: save/load round trip: a load at p into a fresh chunk, after a save of a
\* chunk holding g at p, yields a grid cell-for-cell identical to g and
\* returns false (loaded, not generated).
C5_SaveLoadRoundTrip ==
    (op.name = "load" /\ op.fresh /\ op.position \in DOMAIN saved) =>
        /\ op.result = "Ok(false)"
        /\ \A x \in Idx, y \in Idx, z \in Idx :
            chunk.blocks[y][z][x] = saved[op.position][y][z][x]

\* C5 witness: a fresh load of a saved grid that has empty cells and two kinds
\* of block, differs under a swap of x and z, and is not what generate yields.
C5_Witness ==
    /\ op.name = "load"
    /\ op.fresh
    /\ op.position \in DOMAIN saved
    /\ \E x \in Idx, y \in Idx, z \in Idx : saved[op.position][y][z][x] = "None"
    /\ \E x \in Idx, y \in Idx, z \in Idx :
        saved[op.position][y][z][x] \notin {"None", saved[op.position][0][0][0]}
    /\ \E x \in Idx, y \in Idx, z \in Idx :
        saved[op.position][y][z][x] # saved[op.position][y][x][z]
    /\ saved[op.position] #
        generate(DefaultChunk, noise, op.position[1], op.position[2], op.position[3]).blocks
    /\ chunk.blocks = saved[op.position]

\* A record that cannot be decoded: an array shorter than CHUNK_SIZE^3, bytes
\* that end before the last element, or an element that is no Option<Block>.
Undecodable(data) ==
    \/ data.len < Volume
    \/ Len(data.elems) < Volume
    \/ \E i \in 1 .. Volume : ~ValidElem(data.elems[i])

\* C8: a load that finds a record it cannot decode fails and leaves the
\* chunk exactly as it was: no partially decoded grid is installed.
C8_FailedLoadKeepsChunk ==
    (/\ op.name = "load"
     /\ ChunkKey(op.position) \in DOMAIN store
     /\ Undecodable(store[ChunkKey(op.position)])) =>
        /\ op.result \in {"Err", "panic"}
        /\ chunk = op.before

\* C8 witness: a failed load on a chunk whose grid differs from the record in
\* a cell the decoder read before it failed.
C8_Witness ==
    /\ op.name = "load"
    /\ ~op.fresh
    /\ ChunkKey(op.position) \in DOMAIN store
    /\ Undecodable(store[ChunkKey(op.position)])
    /\ op.result \in {"Err", "panic"}
    /\ ValidElem(store[ChunkKey(op.position)].elems[1])
    /\ chunk.blocks[0][0][0] # DecodeBlock(store[ChunkKey(op.position)].elems[1])

\* C9: a load of a coordinate that has no record runs generation and returns
\* true, and into a fresh chunk it yields the grid that the first such load
\* of the coordinate yielded, whatever else the store holds and whatever was
\* loaded or generated in between.
C9_LoadWithoutRecordReproducible ==
    (op.name = "load" /\ ~op.had_record) =>
        /\ op.result = "Ok(true)"
        /\ op.fresh => /\ op.position \in DOMAIN firstGen
                       /\ chunk.blocks = firstGen[op.position]

\* C9 witness: a second fresh load of a coordinate without a record, after a
\* load or save of another coordinate, with other records in the store.
C9_Witness ==
    /\ op.name = "load"
    /\ op.fresh
    /\ ~op.had_record
    /\ op.again
    /\ ios >= 3
    /\ DOMAIN store # {}
    /\ chunk.blocks = firstGen[op.position]
    /\ \E x \in Idx, y \in Idx, z \in Idx : chunk.blocks[y][z][x] # chunk.blocks[0][0][0]

\* ------------------------------------------------------- world-level claims

\* How many times chunk position cp occurs in the call log.
Count(cp, log) == Cardinality({i \in 1..Len(log) : log[i] = cp})

\* Chunks whose grid the last mouse click changed.
EditedChunks == {cp \in DOMAIN world : world[cp] # op.before[cp]}

\* C6: every block edit through input_mouse_button is followed by a re-mesh
\* of the chunk that contains the edited cell and of no other chunk, also when
\* the placed block falls in another chunk than the hit block.
C6_EditRemeshesEditedChunkOnly ==
    (op.name = "input_mouse_button" /\ EditedChunks # {}) =>
        \A cp \in WorldChunks :
            Count(cp, op.remeshed) = IF cp \in EditedChunks THEN 1 ELSE 0

\* The chunks of the highlight before and after the last update_aim.
OldChunk == {ChunkOf(h[1]) : h \in op.old}
NewChunk == {ChunkOf(h[1]) : h \in op.new}

\* C7: when the ray-cast result differs from the stored highlight, update_aim
\* stores the new one and re-meshes the old highlight's chunk and the new
\* highlight's chunk exactly once each (once in all when they are the same
\* chunk); when it does not differ, nothing is re-meshed and nothing changes.
C7_AimReconciliation ==
    op.name = "update_aim" =>
        /\ highlighted = op.new
        /\ \A cp \in WorldChunks :
               Count(cp, op.remeshed) =
                   IF op.old # op.new /\ cp \in OldChunk \cup NewChunk THEN 1 ELSE 0
        /\ Len(op.remeshed) <= 2
        /\ \A cp \in WorldChunks :
               Count(cp, op.remeshed) = 1 =>
                   chunk_buffers[cp] = FlatMapLayers(world[cp], 0, cp, highlighted)

\* update_aim has moved the highlight from one chunk to another, and also
\* within one chunk.
C7_Witness ==
    /\ op.name = "update_aim"
    /\ OldChunk # {} /\ NewChunk # {} /\ OldChunk # NewChunk
    /\ Len(op.remeshed) = 2

C7_WitnessSameChunk ==
    /\ op.name = "update_aim"
    /\ op.old # op.new /\ OldChunk # {} /\ OldChunk = NewChunk
    /\ Len(op.remeshed) = 1


\* ------------------------------------------------------ single-cell chunks

\* The occupied cells of the chunk, as <<x, y, z>>.
OccupiedCells == {c \in Idx \X Idx \X Idx : Occupied(c[1], c[2], c[3])}

\* C11: a chunk with exactly one occupied cell, of any kind and highlighted or
\* not, meshes to exactly one quad: 1 wide, 1 high, anchored at that cell, of
\* the cell's kind, with all six faces in its mask.
C11_SingleCellOneQuad ==
    (Meshed /\ Cardinality(OccupiedCells) = 1) =>
        \A c \in OccupiedCells :
            /\ Len(Quads) = 1
            /\ Anchor(Quads[1]) = c
            /\ Quads[1].dx = 1 /\ Quads[1].dz = 1
            /\ Quads[1].visible_faces = FACE_ALL
            /\ Quads[1].block_type = chunk.blocks[c[2]][c[3]][c[1]]

\* A chunk whose only block is the highlighted one, in a corner, is meshed.
C11_Witness ==
    /\ Meshed
    /\ OccupiedCells = {<<CHUNK_SIZE - 1, 0, 0>>}
    /\ LocalHighlight = OccupiedCells
    /\ Len(Quads) = 1

\* ------------------------------------------------------------- ray casts

\* The direction is one of the six unit axis vectors.
UnitAxis(dir) == Abs(dir[1]) + Abs(dir[2]) + Abs(dir[3]) = 1

\* The distances, in cells, at which an axis ray from the camera meets an
\* occupied cell within the maximum distance.
OccupiedAhead ==
    {n \in 1..MaxRaySteps :
        get_block(world, Add3(camera.position, Scale3(camera.direction, n))) # "None"}

\* C12: a ray from an empty cell along a unit axis returns the first occupied
\* cell along it within the maximum distance, never a farther one, in whatever
\* chunk it lies, with the negated direction as normal; no hit when there is
\* none.
C12_AxisRayFirstHit ==
    (/\ op.name = "raycast"
     /\ UnitAxis(camera.direction)
     /\ get_block(world, camera.position) = "None") =>
        IF OccupiedAhead = {}
        THEN op.hit = {}
        ELSE \E n \in OccupiedAhead :
                 /\ \A m \in OccupiedAhead : n <= m
                 /\ op.hit = {<<Add3(camera.position, Scale3(camera.direction, n)),
                                Neg3(camera.direction)>>}

\* The ray of the example, scaled: origin MaxRaySteps above the only block of
\* the world at (0, 0, 0), looking down.
C12_Witness ==
    /\ op.name = "raycast"
    /\ camera = [position |-> <<0, MaxRaySteps, 0>>, direction |-> <<0, -1, 0>>]
    /\ \A cp \in DOMAIN world : \A c \in Idx \X Idx \X Idx :
           (world[cp][c[2]][c[3]][c[1]] # "None") <=> (cp = <<0, 0, 0>> /\ c = <<0, 0, 0>>)
    /\ op.hit = {<<<<0, 0, 0>>, <<0, 1, 0>>>>}

\* A ray along x from one chunk hits a block of the next chunk.
C12_WitnessAcrossChunks ==
    /\ op.name = "raycast"
    /\ UnitAxis(camera.direction)
    /\ get_block(world, camera.position) = "None"
    /\ \E h \in op.hit : ChunkOf(h[1]) # ChunkOf(camera.position)

\* Some occupied cell of the world is within MaxRaySteps single-axis steps of
\* the ray's origin.
BlockWithinReach ==
    \E cp \in DOMAIN world : \E c \in Idx \X Idx \X Idx :
        /\ world[cp][c[2]][c[3]][c[1]] # "None"
        /\ LET d == Sub3(Add3(Scale3(cp, CHUNK_SIZE), c), camera.position)
           IN  Abs(d[1]) + Abs(d[2]) + Abs(d[3]) <= MaxRaySteps

\* C13: a ray cast ends within the maximum step count for every world, origin
\* and direction; it returns no hit when no occupied cell lies on the ray
\* within the maximum distance, and a returned cell is never empty.
C13_RayBoundedAndSound ==
    op.name = "raycast" =>
        /\ op.steps <= MaxRaySteps
        /\ \A h \in op.hit : get_block(world, h[1]) # "None"
        /\ (~BlockWithinReach) => op.hit = {}
        /\ (UnitAxis(camera.direction) /\ OccupiedAhead = {}) => op.hit = {}
        /\ op.hit = {} => op.steps = MaxRaySteps

\* A diagonal ray in a world with blocks misses them all and gives up at the
\* maximum step count.
C13_Witness ==
    /\ op.name = "raycast"
    /\ ~UnitAxis(camera.direction)
    /\ BlockWithinReach
    /\ op.hit = {}
    /\ op.steps = MaxRaySteps

\* ------------------------------------------------ blocks outside the world

\* Global coordinates probed: the world's cells and one cell around them.
ProbeCells ==
    ((-1)..(WorldSizeX * CHUNK_SIZE)) \X ((-1)..CHUNK_SIZE) \X ((-1)..CHUNK_SIZE)

\* What the grids hold at a global coordinate, read through the chunks'
\* own coordinate relation: the kinds of the cells of existing chunks that
\* the coordinate names.
CellsAt(pos) ==
    UNION {{world[cp][l[2]][l[3]][l[1]] : l \in block_coords_to_local(cp, pos)} :
              cp \in DOMAIN world}

\* The cell the last mouse click wrote to.
ClickTarget ==
    {IF op.button = "Left" THEN h[1] ELSE Sub3(h[1], h[2]) :
        h \in IF op.button \in {"Left", "Right"} THEN op.hit ELSE {}}

\* C14: get_block on a coordinate whose chunk does not exist or whose cell is
\* empty returns empty; set_block on a coordinate with no backing chunk
\* changes no chunk, creates no chunk and does not fail.
C14_OutsideWorldIsEmptyAndInert ==
    /\ DOMAIN world = WorldChunks
    /\ \A pos \in ProbeCells :
           (CellsAt(pos) \subseteq {"None"}) => get_block(world, pos) = "None"
    /\ op.name = "input_mouse_button" =>
           \A t \in ClickTarget :
               (ChunkOf(t) \notin WorldChunks) => world = op.before

\* A right click put its block at a coordinate below the world.
C14_Witness ==
    /\ op.name = "input_mouse_button"
    /\ op.button = "Right"
    /\ \E t \in ClickTarget : t[2] < 0 /\ get_block(world, t) = "None"
    /\ world = op.before

\* ------------------------------------------------------------ layer jobs

\* How many times q occurs in the sequence s.
Occurrences(q, s) == Cardinality({i \in DOMAIN s : s[i] = q})

\* Two sequences hold the same elements the same number of times.
SameBag(s, t) ==
    \A q \in {s[i] : i \in DOMAIN s} \cup {t[i] : i \in DOMAIN t} :
        Occurrences(q, s) = Occurrences(q, t)

\* The jobs' quads in the order the jobs completed.
RECURSIVE InCompletionOrder(_)
InCompletionOrder(order) ==
    IF order = <<>> THEN <<>>
    ELSE jobs[Head(order)].quads \o InCompletionOrder(Tail(order))

\* s is the beginning of t.
IsPrefix(s, t) == Len(s) <= Len(t) /\ s = SubSeq(t, 1, Len(s))

\* C15: whatever the interleaving of the turns of the layer jobs and whatever
\* their completion order, the quads a job has made so far are the first ones
\* of those a sequential pass over its layer makes from the grid, the offset
\* and the highlight, a completed job has made all of them, and the quads
\* gathered for the chunk, in layer order or in completion order, are the
\* same multiset as those of a sequential pass over the chunk.
C15_LayerJobsIndependent ==
    /\ \A y \in DOMAIN jobs :
           /\ IsPrefix(jobs[y].quads,
                       LayerQuads(chunk.blocks, y, chunk_coords, highlighted))
           /\ jobs[y].pc = "done" =>
                  jobs[y].quads = LayerQuads(chunk.blocks, y, chunk_coords, highlighted)
    /\ op.name = "join" =>
           /\ SameBag(Quads, FlatMapLayers(chunk.blocks, 0, chunk_coords, highlighted))
           /\ SameBag(InCompletionOrder(op.order),
                      FlatMapLayers(chunk.blocks, 0, chunk_coords, highlighted))

\* The jobs completed top layer first and bottom layer last, each with quads,
\* and the geometry was gathered.
C15_Witness ==
    /\ op.name = "join"
    /\ op.order = [i \in 1..CHUNK_SIZE |-> CHUNK_SIZE - i]
    /\ \A y \in DOMAIN jobs : jobs[y].quads # <<>>
    /\ InCompletionOrder(op.order) # Quads

\* Every job is in the middle of its loop, with cells visited, quads made and
\* cells left on its queue, and the jobs have advanced unequally.
C15_WitnessInterleaved ==
    /\ op.name = "fan_out"
    /\ \A y \in DOMAIN jobs :
           /\ jobs[y].pc = "culled"
           /\ jobs[y].visited # {} /\ jobs[y].quads # <<>> /\ jobs[y].queue # <<>>
    /\ \E y, l \in DOMAIN jobs : Len(jobs[y].queue) > Len(jobs[l].queue) + 1

\* ---------------------------------------------------------------- fullness

\* C16: after update_fullness, and after update_geometry, which ends with it,
\* the full flag is true exactly when no cell of the grid is empty, whatever
\* the flag was before.
C16_FullIffNoEmptyCell ==
    op.name \in {"update_fullness", "update_geometry"} =>
        (chunk.full <=> Cardinality(OccupiedCells) = Volume)

\* A chunk whose flag was raised lost a block and was meshed again: the flag
\* is down.
C16_Witness ==
    /\ op.name = "update_geometry"
    /\ op.was_full
    /\ Cardinality(OccupiedCells) = Volume - 1
    /\ ~chunk.full

\* ---------------------------------------------------------------- cull rule

\* The step from a cell to its neighbour across face f.
FaceDir(f) ==
    CASE f = "LEFT" -> <<-1, 0, 0>>
      [] f = "RIGHT" -> <<1, 0, 0>>
      [] f = "BOTTOM" -> <<0, -1, 0>>
      [] f = "TOP" -> <<0, 1, 0>>
      [] f = "BACK" -> <<0, 0, -1>>
      [] f = "FRONT" -> <<0, 0, 1>>

\* Face f of the occupied cell c = <<x, y, z>> of the chunk is open by the
\* rule: the neighbour is outside the chunk, empty, or of other transparency.
OpenByRule(c, f) ==
    LET n == Add3(c, FaceDir(f)) IN
        \/ n \notin Idx \X Idx \X Idx
        \/ chunk.blocks[n[2]][n[3]][n[1]] = "None"
        \/ is_transparent(chunk.blocks[n[2]][n[3]][n[1]])
               # is_transparent(chunk.blocks[c[2]][c[3]][c[1]])

MaskByRule(c) == {f \in FACE_ALL : OpenByRule(c, f)}

\* C17: check_visible_faces sets a face's bit exactly when the neighbour in
\* that direction is outside the chunk, empty or of other transparency, and
\* cull_layer keeps exactly the occupied cells of the layer with a non-empty
\* mask, each once, with its kind and mask.
C17_CullRule ==
    Meshed =>
        /\ \A c \in OccupiedCells :
               check_visible_faces(chunk.blocks, c[1], c[2], c[3]) = MaskByRule(c)
        /\ \A y \in Idx :
               LET r == cull_layer(chunk.blocks, y) IN
                   /\ DOMAIN r.culled =
                          {xz \in Idx \X Idx :
                              /\ <<xz[1], y, xz[2]>> \in OccupiedCells
                              /\ MaskByRule(<<xz[1], y, xz[2]>>) # {}}
                   /\ \A xz \in DOMAIN r.culled :
                          /\ r.culled[xz].visible_faces = MaskByRule(<<xz[1], y, xz[2]>>)
                          /\ r.culled[xz].block_type = chunk.blocks[y][xz[2]][xz[1]]
                   /\ {r.queue[i] : i \in DOMAIN r.queue} = DOMAIN r.culled
                   /\ Len(r.queue) = Cardinality(DOMAIN r.culled)

\* A meshed chunk with a cell closed in on all sides, which the cull pass
\* drops, and a face that is open only because the neighbour's transparency
\* differs.
C17_Witness ==
    /\ Meshed
    /\ \E c \in OccupiedCells :
           /\ MaskByRule(c) = {}
           /\ <<c[1], c[3]>> \notin DOMAIN cull_layer(chunk.blocks, c[2]).culled
    /\ \E c \in OccupiedCells : \E f \in FACE_ALL :
           LET n == Add3(c, FaceDir(f)) IN
               /\ n \in OccupiedCells
               /\ f \in check_visible_faces(chunk.blocks, c[1], c[2], c[3])

\* -------------------------------------------------------------------- seams

\* The occupied cells of the world, as <<chunk position, local cell>>.
WorldCells ==
    {e \in (DOMAIN world) \X (Idx \X Idx \X Idx) :
        world[e[1]][e[2][2]][e[2][3]][e[2][1]] # "None"}

\* Face f of the world cell e is truly exposed: the cell next to it across f,
\* in the same chunk or in the chunk across the boundary, does not exist, is
\* empty, or is of other transparency.
TrulyExposed(e, f) ==
    LET n == Add3(Add3(Scale3(e[1], CHUNK_SIZE), e[2]), FaceDir(f))
        own == world[e[1]][e[2][2]][e[2][3]][e[2][1]]
    IN  \/ CellsAt(n) \subseteq {"None"}
        \/ \E k \in CellsAt(n) : is_transparent(k) # is_transparent(own)

\* C18: every truly exposed face of an occupied cell of the world is marked
\* visible by the cull pass of the cell's own chunk, and a click that leaves a
\* chunk's grid alone leaves its cull result alone.
C18_SeamsNeverUnderRender ==
    /\ \A e \in WorldCells : \A f \in FACE_ALL :
           TrulyExposed(e, f) =>
               /\ f \in check_visible_faces(world[e[1]], e[2][1], e[2][2], e[2][3])
               /\ <<e[2][1], e[2][3]>> \in DOMAIN cull_layer(world[e[1]], e[2][2]).culled
               /\ f \in cull_layer(world[e[1]], e[2][2]).culled[<<e[2][1], e[2][3]>>].visible_faces
    /\ op.name = "input_mouse_button" =>
           \A cp \in DOMAIN world \ EditedChunks : \A y \in Idx :
               cull_layer(world[cp], y) = cull_layer(op.before[cp], y)

\* After a click that changed one chunk, a cell on the seam has the face
\* towards the other chunk truly exposed by a neighbour of other transparency
\* there, and another has it exposed by an empty neighbour there.
C18_Witness ==
    /\ op.name = "input_mouse_button"
    /\ EditedChunks # {}
    /\ \E e \in WorldCells : \E f \in {"LEFT", "RIGHT"} :
           LET n == Add3(Add3(Scale3(e[1], CHUNK_SIZE), e[2]), FaceDir(f)) IN
               /\ ChunkOf(n) \in DOMAIN world /\ ChunkOf(n) # e[1]
               /\ TrulyExposed(e, f)
               /\ CellsAt(n) # {"None"}
    /\ \E e \in WorldCells : \E f \in {"LEFT", "RIGHT"} :
           LET n == Add3(Add3(Scale3(e[1], CHUNK_SIZE), e[2]), FaceDir(f)) IN
               /\ ChunkOf(n) \in DOMAIN world /\ ChunkOf(n) # e[1]
               /\ CellsAt(n) = {"None"}

\* ------------------------------------------------------ coordinate relation

\* The global block coordinate of the highlight.
HighlightBlock == CHOOSE b \in {h[1] : h \in highlighted} : TRUE

\* C19: block_coords_to_local(chunk, block) gives a local offset l exactly
\* when every component of block - chunk * S lies in [0, S), and then
\* chunk * S + l = block; every global block coordinate, negative ones
\* included, has exactly one chunk coordinate that gives a local offset.
C19_CoordinateRelation ==
    op.name = "block_coords_to_local" =>
        /\ op.result # {} <=>
               \A i \in 1..3 :
                   /\ 0 <= HighlightBlock[i] - chunk_coords[i] * CHUNK_SIZE
                   /\ HighlightBlock[i] - chunk_coords[i] * CHUNK_SIZE < CHUNK_SIZE
        /\ \A l \in op.result :
               /\ l \in Idx \X Idx \X Idx
               /\ \A i \in 1..3 : chunk_coords[i] * CHUNK_SIZE + l[i] = HighlightBlock[i]
        /\ Cardinality(op.result) <= 1
        /\ Cardinality({c \in CoordChunks :
                           block_coords_to_local(c, HighlightBlock) # {}}) = 1

\* A block with negative coordinates is mapped into the chunk that holds it,
\* to its last cell on x.
C19_Witness ==
    /\ op.name = "block_coords_to_local"
    /\ HighlightBlock = <<-1, -CHUNK_SIZE - 1, -1>>
    /\ chunk_coords = <<-1, -2, -1>>
    /\ op.result = {<<CHUNK_SIZE - 1, CHUNK_SIZE - 1, CHUNK_SIZE - 1>>}

\* ------------------------------------------------------------ regeneration

\* C20: generate applied a second time in a row to a chunk with the same
\* chunk coordinate leaves the grid as the first application left it.
C20_RegenerationIdempotent ==
    (op.name = "load" /\ op.regen /\ op.result = "Ok(true)") =>
        chunk.blocks = op.before.blocks

\* The chunk below sea level, generated over a grid that held blocks, is
\* generated again: it holds a grass cap, dirt, and water.
C20_Witness ==
    /\ op.name = "load" /\ op.regen /\ op.result = "Ok(true)"
    /\ op.position = <<-1, SeaChunkY - 1, 1>>
    /\ \E c \in OccupiedCells : chunk.blocks[c[2]][c[3]][c[1]] = "Grass"
    /\ \E c \in OccupiedCells : chunk.blocks[c[2]][c[3]][c[1]] = "Water"
    /\ \E c \in OccupiedCells : chunk.blocks[c[2]][c[3]][c[1]] = "Cobblestone"

\* ------------------------------------------------------- generation model

\* Noise maps generate is run with: heights around the sea level, heights
\* just above the world's floor, heights that cross the first chunk boundary
\* and heights one chunk below the sea level.
GenNoises ==
    { DefaultNoise,
      [tbase |-> 0, ta |-> 1, tb |-> 2, tm |-> 7, sbase |-> 1, sm |-> 4],
      [tbase |-> CHUNK_SIZE + 1, ta |-> 1, tb |-> 2, tm |-> 7, sbase |-> 1, sm |-> 4],
      [tbase |-> 128 - 2 * CHUNK_SIZE, ta |-> 2, tb |-> 1, tm |-> 5, sbase |-> 2, sm |-> 3] }

GenCoords ==
    {-1, 0} \X {0, 1, 2, SeaChunkY - 2, SeaChunkY - 1, SeaChunkY, SeaChunkY + 1}
            \X {0, 1}

\* An empty chunk at one of the coordinates, about to be generated.
InitGen ==
    /\ chunk = DefaultChunk
    /\ chunk_coords \in GenCoords
    /\ noise \in GenNoises
    /\ highlighted = {}
    /\ edits = 0
    /\ op = [name |-> "init"]
    /\ store = <<>>
    /\ recorded = {}
    /\ ios = 0
    /\ saved = <<>>
    /\ firstGen = <<>>
    /\ jobs = <<>>
    /\ geometry = EmptyGeometry
    /\ world = <<>>
    /\ camera = InitCamera
    /\ chunk_buffers = <<>>

\* generate(chunk_x, chunk_y, chunk_z) on the chunk.
Generate ==
    /\ op.name = "init"
    /\ chunk' = generate(chunk, noise, chunk_coords[1], chunk_coords[2], chunk_coords[3])
    /\ op' = [name |-> "generate"]
    /\ UNCHANGED <<chunk_coords, highlighted, edits, storeVars, worldVars, jobs,
                   geometry>>

NextGen == Generate

SpecGen == InitGen /\ [][NextGen]_vars

\* ------------------------------------------------------- layered terrain

\* The height of the terrain over column (x, z) of the chunk, and the column's
\* cells from the bottom to the top.
TerrainHeight(x, z) ==
    terrain_value(noise, chunk_coords[1] * CHUNK_SIZE + x,
                         chunk_coords[3] * CHUNK_SIZE + z)

Column(x, z) == [y \in Idx |-> chunk.blocks[y][z][x]]

\* The place of a kind in a column, from the bottom.
LayerRank(b) ==
    IF b = "Bedrock" THEN 0
    ELSE IF b = "Stone" THEN 1
    ELSE IF b = "Dirt" THEN 2
    ELSE IF b = "Grass" THEN 3
    ELSE IF b \in {"Water", "None"} THEN 4
    ELSE 5

\* C21: after generate on an empty chunk every column reads, bottom to top,
\* bedrock, stone, dirt, grass, then only water or empty cells; it holds at
\* most one grass cell, at the terrain height; bedrock is found only at local
\* y = 0 of the chunks with chunk_y = 0, and there in every column.
C21_LayeredTerrain ==
    op.name = "generate" =>
        \A x \in Idx, z \in Idx :
            /\ \A y \in Idx : LayerRank(Column(x, z)[y]) <= 4
            /\ \A y1 \in Idx, y2 \in Idx :
                y1 < y2 => /\ LayerRank(Column(x, z)[y1]) <= LayerRank(Column(x, z)[y2])
                           /\ ~(Column(x, z)[y1] = "Grass" /\ Column(x, z)[y2] = "Grass")
            /\ \A y \in Idx :
                Column(x, z)[y] = "Grass" =>
                    chunk_coords[2] * CHUNK_SIZE + y = TerrainHeight(x, z)
            /\ \A y \in Idx :
                Column(x, z)[y] = "Bedrock" => (chunk_coords[2] = 0 /\ y = 0)
            /\ chunk_coords[2] = 0 => Column(x, z)[0] = "Bedrock"

\* A generated chunk with a column of dirt, a grass cap and water above it.
C21_Witness ==
    /\ op.name = "generate"
    /\ \E x \in Idx, z \in Idx :
        /\ Column(x, z)[0] = "Dirt"
        /\ Column(x, z)[1] = "Grass"
        /\ Column(x, z)[2] = "Water"

\* A generated chunk at the world's floor with bedrock, stone and dirt in one
\* column.
C21_WitnessFloor ==
    /\ op.name = "generate"
    /\ \E x \in Idx, z \in Idx :
        /\ Column(x, z)[0] = "Bedrock"
        /\ Column(x, z)[1] = "Stone"
        /\ Column(x, z)[2] = "Dirt"

\* ------------------------------------------------------ installed geometry

\* C22: after WorldState::new and after every completed update_aim and
\* input_mouse_button, the geometry installed for every chunk of the world is
\* the mesh of that chunk's current grid under the stored highlight.
C22_InstalledGeometryConsistent ==
    /\ DOMAIN chunk_buffers = DOMAIN world
    /\ \A cp \in DOMAIN world :
        chunk_buffers[cp] = FlatMapLayers(world[cp], 0, cp, highlighted)

\* ------------------------------------------------------------------ tiling

\* Cell (x, z) of layer y is kept by the cull pass.
Kept(x, y, z) == <<x, z>> \in DOMAIN cull_layer(chunk.blocks, y).culled

\* C23: every emitted quad is at least 1 wide and 1 high and its rectangle
\* lies inside the layer; no cell lies in the rectangles of two quads; every
\* cell the cull pass kept lies in exactly one rectangle; a cell that is empty
\* or fully occluded lies in none.
C23_QuadsTileKeptCells ==
    Meshed =>
        /\ \A i \in DOMAIN Quads :
            /\ Quads[i].dx >= 1 /\ Quads[i].dz >= 1
            /\ Anchor(Quads[i]) \in Idx \X Idx \X Idx
            /\ Anchor(Quads[i])[1] + Quads[i].dx <= CHUNK_SIZE
            /\ Anchor(Quads[i])[3] + Quads[i].dz <= CHUNK_SIZE
        /\ \A x \in Idx, y \in Idx, z \in Idx :
            /\ Cardinality(QuadsContaining(x, y, z)) <= 1
            /\ Kept(x, y, z) => Cardinality(QuadsContaining(x, y, z)) = 1
            /\ (~Occupied(x, y, z) \/ check_visible_faces(chunk.blocks, x, y, z) = FACE_NONE)
                   => QuadsContaining(x, y, z) = {}

\* A layer meshed to several quads, one of them two rows deep, around an
\* empty cell, in a chunk that also has a fully occluded cell.
C23_Witness ==
    /\ Meshed
    /\ \E y \in Idx :
        /\ \E i \in DOMAIN Quads, j \in DOMAIN Quads :
            /\ i # j
            /\ Anchor(Quads[i])[2] = y /\ Anchor(Quads[j])[2] = y
            /\ Quads[i].dz >= 2
        /\ \E x \in Idx, z \in Idx : ~Occupied(x, y, z)
    /\ \E x \in Idx, y \in Idx, z \in Idx :
        Occupied(x, y, z) /\ check_visible_faces(chunk.blocks, x, y, z) = FACE_NONE

\* --------------------------------------------------------------- face masks

\* The cells of the rectangle of quad q.
RectCells(q) ==
    {c \in Idx \X Idx \X Idx : InRect(q, c[1], c[2], c[3])}

\* C24: the face mask of every emitted quad is the union of the masks the
\* cull pass gave to the cells of the quad's rectangle, and holds no bit that
\* only a cell outside the rectangle contributed.
C24_MaskIsUnionOfRectangle ==
    Meshed =>
        \A i \in DOMAIN Quads :
            Quads[i].visible_faces =
                UNION {check_visible_faces(chunk.blocks, c[1], c[2], c[3]) :
                           c \in RectCells(Quads[i])}

\* --------------------------------------------------------- quad contents

\* C25: every cell of an emitted quad's rectangle holds a block of the quad's
\* kind; a quad larger than 1x1 contains neither the highlighted cell nor a
\* cell of the rectangle of a quad emitted before it.
C25_RectangleOfOneKind ==
    Meshed =>
        \A i \in DOMAIN Quads :
            /\ \A c \in RectCells(Quads[i]) :
                chunk.blocks[c[2]][c[3]][c[1]] = Quads[i].block_type
            /\ Quads[i].dx * Quads[i].dz > 1 =>
                /\ RectCells(Quads[i]) \cap LocalHighlight = {}
                /\ \A j \in 1 .. (i - 1) :
                    RectCells(Quads[i]) \cap RectCells(Quads[j]) = {}

\* A layer with blocks of two kinds and the highlight on one of its kept
\* cells, meshed to a quad followed by a quad of several cells.
C25_Witness ==
    /\ Meshed
    /\ \E i \in DOMAIN Quads, j \in DOMAIN Quads, h \in LocalHighlight :
        /\ i < j
        /\ Anchor(Quads[i])[2] = h[2] /\ Anchor(Quads[j])[2] = h[2]
        /\ Quads[i].block_type # Quads[j].block_type
        /\ Quads[j].dx * Quads[j].dz > 1
        /\ Kept(h[1], h[2], h[3])

\* ------------------------------------------------------ greedy maximality

\* Quad i went through the two extensions: it is neither the highlight's own
\* quad nor a quad of a kind that is emitted cell by cell.
Merged(i) ==
    /\ ~is_unmerged_kind(Quads[i].block_type)
    /\ Anchor(Quads[i]) \notin LocalHighlight

\* Cell c was visited when quad i was emitted: quads are listed in the order
\* of their emission, and a visited cell past the anchor is a cell of the
\* rectangle of a quad emitted before.
Consumed(i, c) == \E j \in 1 .. (i - 1) : c \in RectCells(Quads[j])

\* Cell (x, z) of the layer of quad i could not join it: it is outside the
\* chunk, absent from the culled map, of another kind, visited or highlighted.
Fails(i, x, z) ==
    \/ x \notin Idx
    \/ z \notin Idx
    \/ ~Kept(x, Anchor(Quads[i])[2], z)
    \/ chunk.blocks[Anchor(Quads[i])[2]][z][x] # Quads[i].block_type
    \/ Consumed(i, <<x, Anchor(Quads[i])[2], z>>)
    \/ <<x, Anchor(Quads[i])[2], z>> \in LocalHighlight

XSpan(i) == Anchor(Quads[i])[1] .. (Anchor(Quads[i])[1] + Quads[i].dx - 1)

\* The row past the Z-span of quad i, when it lies in the chunk.
NextRow(i) == {Anchor(Quads[i])[3] + Quads[i].dz} \cap Idx

\* The cell past the X-span of a merged quad fails, and the row past its
\* Z-span is outside the chunk or holds a failing cell within the X-span.
Maximal(i) ==
    /\ Fails(i, Anchor(Quads[i])[1] + Quads[i].dx, Anchor(Quads[i])[3])
    /\ \A z \in NextRow(i) : \E x \in XSpan(i) : Fails(i, x, z)

\* C26 as stated: every merged quad is maximal, and every cell of a rejected
\* candidate row (within the X-span) is outside this quad and lies in a quad
\* emitted later.
C26_GreedyMaximalAllRowCells ==
    Meshed =>
        \A i \in DOMAIN Quads :
            Merged(i) =>
                /\ Maximal(i)
                /\ \A z \in NextRow(i), x \in XSpan(i) :
                    /\ i \notin QuadsContaining(x, Anchor(Quads[i])[2], z)
                    /\ \E j \in DOMAIN Quads :
                        j > i /\ InRect(Quads[j], x, Anchor(Quads[i])[2], z)

\* C26 amended: every merged quad is maximal; every cell of a rejected
\* candidate row (within the X-span) is outside this quad; each of them the
\* cull pass kept lies in a quad emitted later, and each of them the cull pass
\* dropped (an empty or fully occluded cell) lies in no quad.
C26_GreedyMaximalKeptRowCells ==
    Meshed =>
        \A i \in DOMAIN Quads :
            Merged(i) =>
                /\ Maximal(i)
                /\ \A z \in NextRow(i), x \in XSpan(i) :
                    /\ i \notin QuadsContaining(x, Anchor(Quads[i])[2], z)
                    /\ Kept(x, Anchor(Quads[i])[2], z) =>
                        \E j \in DOMAIN Quads :
                            j > i /\ InRect(Quads[j], x, Anchor(Quads[i])[2], z)
                    /\ ~Kept(x, Anchor(Quads[i])[2], z) =>
                        QuadsContaining(x, Anchor(Quads[i])[2], z) = {}

\* A merged quad several cells wide whose candidate row was rejected: the row
\* holds, within the X-span, a cell the cull pass dropped and a kept cell.
C26_Witness ==
    /\ Meshed
    /\ \E i \in DOMAIN Quads :
        /\ Merged(i)
        /\ Quads[i].dx >= 2
        /\ \E z \in NextRow(i) :
            /\ \E x \in XSpan(i) : ~Kept(x, Anchor(Quads[i])[2], z)
            /\ \E x \in XSpan(i) : Kept(x, Anchor(Quads[i])[2], z)

\* ------------------------------------------------------------ tessellation

\* The number of vertices Quad::to_geometry yields: four corners for each face
\* in the quad's mask (its six indices per face draw two triangles on them).
quad_vertex_count(quad) == 4 * Cardinality(quad.visible_faces)

\* The number of values of the index type u16, which "as u16" reduces the
\* vertex count to.
IndexModulus == 65536

\* The loop of quads_to_geometry from the i-th quad on, with len vertices in
\* the geometry: each quad is handed "len as u16" as its first vertex index.
\* The result lists, per quad, the index handed and the vertices before it.
RECURSIVE AppendQuads(_, _, _)
AppendQuads(quads, i, len) ==
    IF i > Len(quads)
    THEN <<>>
    ELSE <<[base |-> len % IndexModulus, vertices_len |-> len]>>
             \o AppendQuads(quads, i + 1, len + quad_vertex_count(quads[i]))

quads_to_geometry(quads) == AppendQuads(quads, 1, 0)

\* A chunk of blocks that touch one another only at edges and corners.
Checkerboard ==
    [y \in Idx |-> [z \in Idx |-> [x \in Idx |->
        IF (x + y + z) % 2 = 0 THEN "Stone" ELSE "None"]]]

\* How many quads the loop is followed for. A Checkerboard chunk of 32 cells
\* a side meshes to 32^3 / 2 = 16384 quads, one for each block.
MaxQuads == 2740

\* The loop runs over the quads of a Checkerboard chunk. The chunk of the
\* model is smaller than the index type is wide, so the loop goes on through
\* quads like those of its mesh, as many as a chunk of full size has.
InitIndex ==
    /\ chunk = [DefaultChunk EXCEPT !.blocks = Checkerboard]
    /\ chunk_coords = <<0, 0, 0>>
    /\ highlighted = {}
    /\ edits = 0
    /\ op = [name |-> "init"]
    /\ store = <<>>
    /\ noise = DefaultNoise
    /\ ios = 0
    /\ saved = <<>>
    /\ recorded = {}
    /\ firstGen = <<>>
    /\ jobs = <<>>
    /\ geometry = EmptyGeometry
    /\ world = <<>>
    /\ camera = InitCamera
    /\ chunk_buffers = <<>>

\* update_geometry's call of quads_to_geometry is entered with the quads the
\* mesher made.
MeshForIndex ==
    /\ op.name = "init"
    /\ chunk' = update_geometry(chunk, chunk_coords, highlighted)
    /\ op' = [name |-> "update_geometry", was_full |-> chunk.full]
    /\ UNCHANGED <<jobs, geometry, chunk_coords, highlighted, edits, storeVars,
                   worldVars>>

\* One turn of the loop of quads_to_geometry: the quad is handed the length
\* of geometry.vertices as u16 and its vertices are appended.
AppendQuad ==
    /\ op.name \in {"update_geometry", "append_quad"}
    /\ geometry.quads_done < MaxQuads
    /\ \E i \in DOMAIN Quads :
           LET r == AppendQuads(<<Quads[i]>>, 1, geometry.vertices_len)[1] IN
               /\ op' = [name |-> "append_quad", base |-> r.base,
                         vertices_len |-> r.vertices_len]
               /\ geometry' =
                      [vertices_len |-> geometry.vertices_len
                                            + quad_vertex_count(Quads[i]),
                       quads_done |-> geometry.quads_done + 1]
    /\ UNCHANGED <<jobs, chunk, chunk_coords, highlighted, edits, storeVars,
                   worldVars>>

NextIndex == MeshForIndex \/ AppendQuad

SpecIndex == InitIndex /\ [][NextIndex]_vars

\* C27: the first vertex index quads_to_geometry hands to a quad is the number
\* of vertices appended before it: for every chunk grid that number fits the
\* index type, so no index base is reduced modulo the type's range.
C27_IndexBaseNeverWraps ==
    op.name = "append_quad" => op.base = op.vertices_len

\* ---------------------------------------------------------- reload model

\* Loading over a chunk that was meshed: the persistence actions together
\* with update_geometry and update_fullness.
ReloadCoords == {<<0, 0, 0>>, <<0, SeaChunkY, 0>>}

\* The store is empty or holds one well-formed record.
ReloadStores ==
    {{}} \cup {{<<p, serialize([DefaultChunk EXCEPT !.blocks = RecordGrid])>>} :
                  p \in ReloadCoords}

InitReload ==
    /\ chunk \in {[DefaultChunk EXCEPT !.blocks = g] : g \in BaseGrids}
    /\ chunk_coords \in ReloadCoords
    /\ highlighted = {}
    /\ edits = 0
    /\ op = [name |-> "init"]
    /\ \E init \in ReloadStores :
        /\ store = [k \in {ChunkKey(e[1]) : e \in init} |->
                       (CHOOSE e \in init : ChunkKey(e[1]) = k)[2]]
        /\ recorded = {e[1] : e \in init}
    /\ noise = DefaultNoise
    /\ ios = 0
    /\ saved = <<>>
    /\ firstGen = <<>>
    /\ jobs = <<>>
    /\ geometry = EmptyGeometry
    /\ world = <<>>
    /\ camera = InitCamera
    /\ chunk_buffers = <<>>

\* update_fullness called on its own, at any time.
UpdateFullnessNow ==
    /\ Running
    /\ op.name # "update_fullness"
    /\ chunk' = update_fullness(chunk)
    /\ op' = [name |-> "update_fullness", was_full |-> chunk.full]
    /\ UNCHANGED <<jobs, geometry, chunk_coords, highlighted, edits, storeVars, worldVars>>

NextReload ==
    \/ \E c \in StoreEditCells, b \in {"None", "Cobblestone"} :
           Running /\ EditBlock(c[1], c[2], c[3], b)
    \/ Save
    \/ \E position \in ReloadCoords, fresh \in BOOLEAN : Load(position, fresh)
    \/ Running /\ UpdateGeometry
    \/ UpdateFullnessNow

SpecReload == InitReload /\ [][NextReload]_vars

\* The grid the record of the loaded coordinate was written from: the grid
\* last saved under it, or the grid of the record the store started with.
RecordedGrid ==
    IF op.position \in DOMAIN saved THEN saved[op.position] ELSE RecordGrid

\* C28: a load that decodes an existing record leaves the chunk with the
\* decoded grid, no geometry installed and full false, whatever geometry and
\* full value it had before and also when the decoded grid has no empty cell;
\* and a chunk without geometry and with full false stays so in every step
\* that is not update_geometry or update_fullness.
C28_LoadReplacesWholeChunk ==
    /\ []((op.name = "load" /\ op.result = "Ok(false)") =>
            /\ chunk.blocks = RecordedGrid
            /\ chunk.buffers = {}
            /\ ~chunk.full)
    /\ [][(/\ chunk.buffers = {}
           /\ ~chunk.full
           /\ op'.name \notin {"update_geometry", "update_fullness"}) =>
              (chunk'.buffers = {} /\ ~chunk'.full)]_vars

\* A meshed chunk with full true is loaded from a record whose grid has no
\* empty cell.
C28_Witness ==
    /\ op.name = "load" /\ op.result = "Ok(false)"
    /\ ~op.fresh
    /\ op.before.full
    /\ op.before.buffers # {}
    /\ \A x \in Idx, y \in Idx, z \in Idx : RecordedGrid[y][z][x] # "None"
    /\ op.before.blocks # chunk.blocks

\* -------------------------------------------------- load without a record

\* C29: a load of a coordinate that has no record leaves the chunk with the
\* grid generate produces for that coordinate on an empty chunk, whatever
\* grid the chunk held before the call.
C29_LoadWithoutRecordIgnoresContents ==
    (op.name = "load" /\ ~op.had_record /\ op.result = "Ok(true)") =>
        chunk.blocks =
            generate(DefaultChunk, noise,
                     op.position[1], op.position[2], op.position[3]).blocks

\* ------------------------------------------------------------ sea-level fill

\* C30: after generate on an empty chunk below the sea level (chunk_y <
\* 128 / CHUNK_SIZE) every cell is occupied, so that update_fullness finds
\* the chunk full, and every cell above the terrain height other than the
\* bedrock floor holds water; after generate on an empty chunk at or above the
\* sea level no cell holds water and every cell above a grass cap is empty.
C30_SeaLevelFill ==
    op.name = "generate" =>
        IF chunk_coords[2] < 128 \div CHUNK_SIZE
        THEN /\ \A x \in Idx, y \in Idx, z \in Idx : Occupied(x, y, z)
             /\ update_fullness(chunk).full
             /\ \A x \in Idx, y \in Idx, z \in Idx :
                 (/\ chunk_coords[2] * CHUNK_SIZE + y > TerrainHeight(x, z)
                  /\ ~(chunk_coords[2] = 0 /\ y = 0)) =>
                     chunk.blocks[y][z][x] = "Water"
        ELSE /\ \A x \in Idx, y \in Idx, z \in Idx : chunk.blocks[y][z][x] # "Water"
             /\ \A x \in Idx, z \in Idx, y1 \in Idx, y2 \in Idx :
                 (y1 < y2 /\ Column(x, z)[y1] = "Grass") => Column(x, z)[y2] = "None"

\* A chunk below the sea level generated with a grass cap and water over it.
C30_Witness ==
    /\ op.name = "generate"
    /\ chunk_coords[2] < 128 \div CHUNK_SIZE
    /\ \E x \in Idx, z \in Idx, y \in Idx :
        /\ y + 1 \in Idx
        /\ Column(x, z)[y] = "Grass"
        /\ Column(x, z)[y + 1] = "Water"

\* A chunk at the sea level generated with a grass cap under an empty cell.
C30_WitnessAbove ==
    /\ op.name = "generate"
    /\ chunk_coords[2] >= 128 \div CHUNK_SIZE
    /\ \E x \in Idx, z \in Idx, y \in Idx :
        /\ y + 1 \in Idx
        /\ Column(x, z)[y] = "Grass"
        /\ Column(x, z)[y + 1] = "None"

====
